---- MODULE Spec2Model ----
(***************************************************************************)
(* Model of the schedule pipeline of brestprihodpf:                        *)
(*   docker/bot/img_text_converter.py  process_text, create_schedule_html, *)
(*                                     update_index_html                   *)
(*   docker/bot/bot.py                 TextProcessor and the upload        *)
(*                                     handlers                            *)
(* Texts and file contents are sequences of characters; the 80-character   *)
(* marker literal is one element of such a sequence.  It cannot overlap    *)
(* itself; a "<" followed by the rest of the literal (MarkerTail) is read  *)
(* as the marker wherever re.sub puts the two side by side.                *)
(***************************************************************************)
EXTENDS Integers, Sequences, FiniteSets, TLC

VARIABLES
  scenario,      \* which input sets the behaviour draws from
  clock,         \* wall clock, in ticks
  targetExists,  \* os.path.exists(index_path)
  target,        \* bytes of index.html
  targetMtime,   \* modification time of index.html
  backupDir,     \* the sibling backups/ directory exists
  backups,       \* files backups/index.html.backup_<second>
  last,          \* what the last update_index_html call saw and did
  hist,          \* bookkeeping over all calls so far
  ptIn,          \* the text handed to process_text
  ptOut,         \* what process_text handed back
  csIn,          \* the text handed to create_schedule_html
  csOut,         \* what create_schedule_html handed back
  current_text,  \* text_processor.current_text
  edited_text,   \* text_processor.edited_text
  botLast,       \* what the last bot handler saw and did
  repoIndex,     \* index.html of the GitHub repository (REPO_URL) at HEAD
  repoParents    \* index.html at HEAD~1, HEAD~2, ... of the repository

fsVars == <<targetExists, target, targetMtime, backupDir, backups>>
patchVars == <<clock, targetExists, target, targetMtime, backupDir, backups,
               last, hist>>
textVars == <<ptIn, ptOut, csIn, csOut>>
botVars == <<current_text, edited_text, botLast>>
repoVars == <<repoIndex, repoParents>>

vars == <<scenario, clock, targetExists, target, targetMtime, backupDir,
          backups, last, hist, ptIn, ptOut, csIn, csOut, current_text,
          edited_text, botLast, repoIndex, repoParents>>

----------------------------------------------------------------------------
(* Bounds *)

MaxCalls == 2          \* calls per behaviour in the fault scenario
RetentionCalls == 12   \* calls per behaviour in the retention scenario
MaxPartial == 1        \* bytes that reach the disk before a failing copy/write
MaxTextLen == 3        \* length of the raw texts enumerated for process_text
MaxEvents == 3         \* bot events per behaviour
MaxRows == 3           \* lines of the raw texts built from heading, time and note lines
MaxLines == 10         \* lines of the tagged texts enumerated for the builder
MaxCards == 9          \* heading/content pairs of the regular tagged texts

(* Program constants *)

TicksPerSecond == 2    \* strftime('%Y%m%d_%H%M%S') has one-second resolution
RetentionKeep == 10    \* backup_files[:-10] and len(backup_files) > 10

----------------------------------------------------------------------------
(* Characters and strings *)

start_marker ==
  "<!------------------------------ Insert Schedule ------------------------------>"

end_marker ==
  "<!------------------------------ Insert Schedule ------------------------------>"

\* the marker literal without its first character "<"
MarkerTail ==
  "!------------------------------ Insert Schedule ------------------------------>"

\* characters str.strip() removes and \s matches, of the characters below
\* 256: the ASCII white space, the separators 0x1c to 0x1f, NEL and the
\* no-break space
Whitespace ==
  { " ", "\n", "\r", "\t", "\\x0b", "\\x0c",
    "\\x1c", "\\x1d", "\\x1e", "\\x1f", "\\x85", "\\xa0" }

\* characters int() takes around a number: the white space without the
\* separators 0x1c to 0x1f
IntSpace == Whitespace \ {"\\x1c", "\\x1d", "\\x1e", "\\x1f"}

\* the ASCII letters
AsciiLetters ==
  { "a", "b", "c", "d", "e", "f", "g", "h", "i", "j", "k", "l", "m", "n",
    "o", "p", "q", "r", "s", "t", "u", "v", "w", "x", "y", "z",
    "A", "B", "C", "D", "E", "F", "G", "H", "I", "J", "K", "L", "M", "N",
    "O", "P", "Q", "R", "S", "T", "U", "V", "W", "X", "Y", "Z" }

\* what \d matches
Digits == {"0", "1", "2", "3", "4", "5", "6", "7", "8", "9"}

\* a backslash before one of these in a replacement template is a group
\* reference, unless three octal digits follow the backslash (a backslash
\* before "0" always starts an octal escape)
GroupDigits == Digits \ {"0"}

Min(a, b) == IF a < b THEN a ELSE b

\* not s or not s.strip()
IsBlank(s) == \A i \in 1..Len(s) : s[i] \in Whitespace

RECURSIVE LStripOf(_, _)
\* s without its leading characters of the set W
LStripOf(s, W) ==
  IF s # <<>> /\ Head(s) \in W THEN LStripOf(Tail(s), W) ELSE s

RECURSIVE RStripOf(_, _)
\* s without its trailing characters of the set W
RStripOf(s, W) ==
  IF s # <<>> /\ s[Len(s)] \in W
  THEN RStripOf(SubSeq(s, 1, Len(s) - 1), W)
  ELSE s

\* str.strip()
Strip(s) == RStripOf(LStripOf(s, Whitespace), Whitespace)

RECURSIVE Canon(_)
\* a text in which a "<" and the rest of the marker literal came to stand
\* side by side: the two are the marker
Canon(s) ==
  IF s = <<>> THEN <<>>
  ELSE IF Len(s) >= 2 /\ s[1] = "<" /\ s[2] = MarkerTail
  THEN <<start_marker>> \o Canon(SubSeq(s, 3, Len(s)))
  ELSE <<Head(s)>> \o Canon(Tail(s))

RECURSIVE Count(_, _)
\* str.count for a needle that cannot overlap itself
Count(s, t) ==
  IF s = <<>> THEN 0
  ELSE (IF Head(s) = t THEN 1 ELSE 0) + Count(Tail(s), t)

\* index of the first occurrence of t in s (t occurs in s)
Find(s, t) == CHOOSE i \in 1..Len(s) : s[i] = t /\ \A j \in 1..(i-1) : s[j] # t

RECURSIVE ReadText(_)
\* open(path, "r", encoding="utf-8").read(): universal newlines turn
\* "\r\n" and a lone "\r" into "\n"
ReadText(b) ==
  IF b = <<>> THEN <<>>
  ELSE IF Head(b) = "\r"
       THEN IF Len(b) >= 2 /\ b[2] = "\n"
            THEN <<"\n">> \o ReadText(SubSeq(b, 3, Len(b)))
            ELSE <<"\n">> \o ReadText(Tail(b))
       ELSE <<Head(b)>> \o ReadText(Tail(b))

\* open(path, "w", encoding="utf-8").write(s) on Linux: "\n" stays "\n"
WriteText(s) == s

\* the characters chr(0) .. chr(255) as elements of a text: a printable ASCII
\* character is itself, another one is named by its hexadecimal code
CharTable ==
  <<
     "\\x00", "\\x01", "\\x02", "\\x03", "\\x04", "\\x05", "\\x06", "\\x07",
     "\\x08", "\t", "\n", "\\x0b", "\\x0c", "\r", "\\x0e", "\\x0f",
     "\\x10", "\\x11", "\\x12", "\\x13", "\\x14", "\\x15", "\\x16", "\\x17",
     "\\x18", "\\x19", "\\x1a", "\\x1b", "\\x1c", "\\x1d", "\\x1e", "\\x1f",
     " ", "!", "\"", "#", "$", "%", "&", "'",
     "(", ")", "*", "+", ",", "-", ".", "/",
     "0", "1", "2", "3", "4", "5", "6", "7",
     "8", "9", ":", ";", "<", "=", ">", "?",
     "@", "A", "B", "C", "D", "E", "F", "G",
     "H", "I", "J", "K", "L", "M", "N", "O",
     "P", "Q", "R", "S", "T", "U", "V", "W",
     "X", "Y", "Z", "[", "\\", "]", "^", "_",
     "\\x60", "a", "b", "c", "d", "e", "f", "g",
     "h", "i", "j", "k", "l", "m", "n", "o",
     "p", "q", "r", "s", "t", "u", "v", "w",
     "x", "y", "z", "{", "|", "}", "~", "\\x7f",
     "\\x80", "\\x81", "\\x82", "\\x83", "\\x84", "\\x85", "\\x86", "\\x87",
     "\\x88", "\\x89", "\\x8a", "\\x8b", "\\x8c", "\\x8d", "\\x8e", "\\x8f",
     "\\x90", "\\x91", "\\x92", "\\x93", "\\x94", "\\x95", "\\x96", "\\x97",
     "\\x98", "\\x99", "\\x9a", "\\x9b", "\\x9c", "\\x9d", "\\x9e", "\\x9f",
     "\\xa0", "\\xa1", "\\xa2", "\\xa3", "\\xa4", "\\xa5", "\\xa6", "\\xa7",
     "\\xa8", "\\xa9", "\\xaa", "\\xab", "\\xac", "\\xad", "\\xae", "\\xaf",
     "\\xb0", "\\xb1", "\\xb2", "\\xb3", "\\xb4", "\\xb5", "\\xb6", "\\xb7",
     "\\xb8", "\\xb9", "\\xba", "\\xbb", "\\xbc", "\\xbd", "\\xbe", "\\xbf",
     "\\xc0", "\\xc1", "\\xc2", "\\xc3", "\\xc4", "\\xc5", "\\xc6", "\\xc7",
     "\\xc8", "\\xc9", "\\xca", "\\xcb", "\\xcc", "\\xcd", "\\xce", "\\xcf",
     "\\xd0", "\\xd1", "\\xd2", "\\xd3", "\\xd4", "\\xd5", "\\xd6", "\\xd7",
     "\\xd8", "\\xd9", "\\xda", "\\xdb", "\\xdc", "\\xdd", "\\xde", "\\xdf",
     "\\xe0", "\\xe1", "\\xe2", "\\xe3", "\\xe4", "\\xe5", "\\xe6", "\\xe7",
     "\\xe8", "\\xe9", "\\xea", "\\xeb", "\\xec", "\\xed", "\\xee", "\\xef",
     "\\xf0", "\\xf1", "\\xf2", "\\xf3", "\\xf4", "\\xf5", "\\xf6", "\\xf7",
     "\\xf8", "\\xf9", "\\xfa", "\\xfb", "\\xfc", "\\xfd", "\\xfe", "\\xff" >>

\* chr(n)
Chr(n) == CharTable[n + 1]

OctDigits == {"0", "1", "2", "3", "4", "5", "6", "7"}

\* int(c) of a digit
DigitValue(c) ==
  CASE c = "0" -> 0 [] c = "1" -> 1 [] c = "2" -> 2 [] c = "3" -> 3
    [] c = "4" -> 4 [] c = "5" -> 5 [] c = "6" -> 6 [] c = "7" -> 7
    [] c = "8" -> 8 [] c = "9" -> 9

\* the octal digits that "\0" takes with it: at most two
OctalRun(t) ==
  IF t # <<>> /\ t[1] \in OctDigits
  THEN IF Len(t) >= 2 /\ t[2] \in OctDigits THEN 2 ELSE 1
  ELSE 0

RECURSIVE OctalValue(_)
\* int(digits, 8)
OctalValue(digits) ==
  IF digits = <<>> THEN 0
  ELSE 8 * OctalValue(SubSeq(digits, 1, Len(digits) - 1))
         + DigitValue(digits[Len(digits)])

\* ESCAPES of the re module: the letters that make an escape with a
\* backslash, and the character each one stands for
EscapeLetters == {"a", "b", "f", "n", "r", "t", "v"}

EscapeChar(c) ==
  CASE c = "a" -> Chr(7) [] c = "b" -> Chr(8) [] c = "f" -> Chr(12)
    [] c = "n" -> "\n" [] c = "r" -> "\r" [] c = "t" -> "\t"
    [] c = "v" -> Chr(11)

\* a reference to group 0 (the whole match) in a parsed template
GroupZero == "\\g<0>"

RECURSIVE NameEnd(_, _)
\* s.getuntil(">"): the first element at or after i that holds a ">" (the
\* marker literal ends with one), 0 when there is none
NameEnd(t, i) ==
  IF i > Len(t) THEN 0
  ELSE IF t[i] \in {">", start_marker, MarkerTail} THEN i
  ELSE NameEnd(t, i + 1)

\* digits with single underscores between them, every digit a zero
ZeroDigits(d) ==
  /\ d # <<>>
  /\ d[1] = "0" /\ d[Len(d)] = "0"
  /\ \A i \in 1..Len(d) : d[i] \in {"0", "_"}
  /\ \A i \in 1..(Len(d) - 1) : ~(d[i] = "_" /\ d[i + 1] = "_")

\* the group name of "\g<name>" is accepted: int(name) is 0, the only
\* group of a pattern without groups.  int() takes white space around the
\* number and a sign; a name that is an identifier is an unknown group, a
\* number above 0 an invalid reference, anything else a bad name
ZeroName(name) ==
  LET n == RStripOf(LStripOf(name, IntSpace), IntSpace)
      d == IF n # <<>> /\ Head(n) \in {"+", "-"} THEN Tail(n) ELSE n
  IN  ZeroDigits(d)

RECURSIVE ExpandTemplate(_)
\* what re.sub does to its replacement string (parse_template of the re
\* module): a backslash with a, b, f, n, r, t, v or a backslash is an
\* escape; "\g<0>" stands for the whole match and any other "\g" is an
\* error; "\0" with up to two more octal digits, and a backslash with
\* three octal digits, is the character of that code (an error above
\* 0o377); a backslash before another digit is a group reference, and the
\* pattern has no group; before another ASCII letter it is a bad escape;
\* before anything else it is kept
ExpandTemplate(t) ==
  IF t = <<>> THEN [ok |-> TRUE, text |-> <<>>]
  ELSE IF Head(t) # "\\"
  THEN LET r == ExpandTemplate(Tail(t))
       IN  [ok |-> r.ok, text |-> <<Head(t)>> \o r.text]
  ELSE IF Len(t) = 1 THEN [ok |-> FALSE, text |-> <<>>]
  ELSE LET c == t[2]
           r == ExpandTemplate(SubSeq(t, 3, Len(t)))
       IN  IF c \in EscapeLetters
           THEN [ok |-> r.ok, text |-> <<EscapeChar(c)>> \o r.text]
           ELSE IF c = "\\" THEN [ok |-> r.ok, text |-> <<"\\">> \o r.text]
           ELSE IF c = "g"
           THEN LET q == NameEnd(t, 4) IN
                IF \/ Len(t) < 3
                   \/ t[3] # "<"
                   \/ q = 0
                   \/ t[q] # ">"
                   \/ ~ZeroName(SubSeq(t, 4, q - 1))
                THEN [ok |-> FALSE, text |-> <<>>]
                ELSE LET g == ExpandTemplate(SubSeq(t, q + 1, Len(t)))
                     IN  [ok |-> g.ok, text |-> <<GroupZero>> \o g.text]
           ELSE IF c = "0"
           THEN LET k == OctalRun(SubSeq(t, 3, Len(t)))
                    q == ExpandTemplate(SubSeq(t, 3 + k, Len(t)))
                IN  [ok |-> q.ok,
                     text |-> <<Chr(OctalValue(SubSeq(t, 3, 2 + k)) % 256)>>
                                \o q.text]
           ELSE IF /\ c \in OctDigits
                   /\ Len(t) >= 4
                   /\ t[3] \in OctDigits
                   /\ t[4] \in OctDigits
           THEN LET v == OctalValue(SubSeq(t, 2, 4))
                    q == ExpandTemplate(SubSeq(t, 5, Len(t)))
                IN  IF v > 255 THEN [ok |-> FALSE, text |-> <<>>]
                    ELSE [ok |-> q.ok, text |-> <<Chr(v)>> \o q.text]
           ELSE IF c \in GroupDigits \/ c \in AsciiLetters
                THEN [ok |-> FALSE, text |-> <<>>]
                ELSE [ok |-> r.ok, text |-> <<"\\", c>> \o r.text]

RECURSIVE Instantiate(_, _)
\* the parsed template with the match m in the place of every reference to
\* group 0
Instantiate(repl, m) ==
  IF repl = <<>> THEN <<>>
  ELSE (IF Head(repl) = GroupZero THEN m ELSE <<Head(repl)>>)
         \o Instantiate(Tail(repl), m)

RECURSIVE SubSpans(_, _)
\* every non-overlapping marker..marker span of s, left to right, becomes
\* the template filled in with that span
SubSpans(s, repl) ==
  IF Count(s, start_marker) < 2 THEN s
  ELSE LET i == Find(s, start_marker)
           rest == SubSeq(s, i + 1, Len(s))
           j == Find(rest, end_marker)
       IN  SubSeq(s, 1, i - 1) \o Instantiate(repl, SubSeq(s, i, i + j))
             \o SubSpans(SubSeq(rest, j + 1, Len(rest)), repl)

\* re.sub(f"{start_marker}.*?{end_marker}", repl, content, flags=re.DOTALL)
\* with repl already parsed
ReSubSection(s, repl) == Canon(SubSpans(s, repl))

\* f"{start_marker}\n{schedule_html}\n      {end_marker}"
ScheduleSection(schedule_html) ==
  <<start_marker, "\n">> \o schedule_html
    \o <<"\n", " ", " ", " ", " ", " ", " ", end_marker>>

----------------------------------------------------------------------------
(* Inputs *)

\* contents index.html may have when the first call is made
TargetContents ==
  { <<"x", start_marker, "y", start_marker, "x">>,
    <<"x", "\r", "\n", start_marker, "\n", start_marker, "y">>,
    <<"x", start_marker, "y">>,
    <<"x", "y">>,
    <<start_marker, start_marker, "x", start_marker>> }

\* fragments handed to update_index_html
Fragments ==
  { <<>>, <<" ", "\n">>, <<"x">>, <<"x", "\\", "n", "y">>, <<"\\", "1">>,
    <<"x", start_marker>> }

\* fragments without the marker that re.sub expands to text with a marker:
\* a reference to the whole match, and an octal escape for "<" before the
\* rest of the marker literal
TemplateFragments ==
  { <<"\\", "g", "<", "0", ">">>, <<"\\", "0", "7", "4", MarkerTail>> }

\* where an I/O error may be raised inside update_index_html
Faults ==
  { "none", "mkdir", "glob", "copy_open", "copy_data", "copy_stat",
    "read", "write_open", "write_data" }

\* the standalone scripts also get a fragment with an octal escape; the
\* template scenario has the fragments that re.sub rewrites
Pool ==
  IF scenario = "retention" THEN { <<"x">>, <<"y">> }
  ELSE IF scenario = "standalone"
  THEN Fragments \cup { <<"\\", "0">> } \cup TemplateFragments
  ELSE IF scenario = "template"
  THEN { <<"x">>, <<"x", "\\", "n", "y">>, <<"\\", "1">>, <<"\\x0b">>,
         <<"\\", "g", "<", "\\x85", "0", ">">> }
         \cup TemplateFragments
  ELSE Fragments

FaultPool == IF scenario = "retention" THEN {"none"} ELSE Faults

\* ticks from the end of one call to the next one; the first call is made at
\* tick 0
DelayPool ==
  IF scenario = "retention" THEN {TicksPerSecond - 1}
  ELSE IF hist.calls = 0 THEN {0}
  ELSE {0, TicksPerSecond - 1}

\* the except branch runs its copy2 only when it is entered after
\* backup_file was bound: by an I/O error from the backup copy on, or, with
\* no I/O error, by the error re.sub raises for a bad template (line 295).
\* That copy2 may fail too: before it opens index.html ("open"), while it
\* copies the data, index.html being truncated already ("data"), or in
\* copystat, after the data ("stat")
RestoreFaults(fault, schedule_html) ==
  IF fault \in {"mkdir", "glob"} THEN {"none"}
  ELSE IF fault = "none" /\ ExpandTemplate(ScheduleSection(schedule_html)).ok
  THEN {"none"}
  ELSE {"none", "open", "data", "stat"}

\* how many bytes a failing copy or write leaves behind: none, or MaxPartial
PartialLengths(fault, rfault) ==
  IF fault \in {"copy_data", "write_data"} \/ rfault = "data"
  THEN {0, MaxPartial}
  ELSE {0}

CallLimit == IF scenario = "retention" THEN RetentionCalls ELSE MaxCalls

Second(t) == t \div TicksPerSecond

----------------------------------------------------------------------------
(* The file system seen by update_index_html *)

\* the backup file named path, if there is one
BackupNamed(bks, name) == { b \in bks : b.name = name }

\* shutil.copy2 / open("wb") onto backups/<name>: the file is replaced
PutBackup(bks, name, content, mtime, born) ==
  (bks \ BackupNamed(bks, name))
    \cup { [name |-> name, content |-> content, mtime |-> mtime,
            born |-> born] }

\* sorted(glob(...), key=os.path.getmtime)[:-10] when more than 10 files
\* exist: the files an ascending sort by mtime puts before the last 10
\* (files with equal mtime come in the directory's order, which is any)
PruneChoices(bks) ==
  IF Cardinality(bks) > RetentionKeep
  THEN { D \in SUBSET bks :
           /\ Cardinality(D) = Cardinality(bks) - RetentionKeep
           /\ \A d \in D : \A k \in bks \ D : d.mtime <= k.mtime }
  ELSE { {} }

\* the first n bytes of s, never all of a non-empty s
Partial(s, n) == SubSeq(s, 1, Min(n, Len(s) - 1))

\* a return without touching anything (lines 248-255) or after a failure
\* that no handler step follows
Outcome(result, kind, tgt, mtime, dir, bks, flags) ==
  [result |-> result, kind |-> kind, target |-> tgt, mtime |-> mtime,
   dir |-> dir, backups |-> bks, read |-> flags.read, wrote |-> flags.wrote,
   copied |-> flags.copied, restored |-> flags.restored,
   fault |-> flags.fault]

NoFlags ==
  [read |-> FALSE, wrote |-> FALSE, copied |-> FALSE, restored |-> FALSE,
   fault |-> "none"]

\* shutil.copy2(backup_file, index_path) of the except branches: copyfile
\* opens (and truncates) the destination and copies the data, copystat then
\* sets the mtime of the source; a failure leaves what was done so far
RestoreCopy(kind, failKind, tgt, mtime, bks, b, rfault, part, now, flags) ==
  IF rfault = "open"
  THEN Outcome(FALSE, failKind, tgt, mtime, TRUE, bks, flags)
  ELSE IF rfault = "data"
  THEN Outcome(FALSE, failKind, Partial(b.content, part), now, TRUE, bks,
               flags)
  ELSE IF rfault = "stat"
  THEN Outcome(FALSE, failKind, b.content, now, TRUE, bks, flags)
  ELSE Outcome(FALSE, kind, b.content, b.mtime, TRUE, bks,
               [flags EXCEPT !.restored = TRUE])

\* the except branch, lines 309-320, entered with backup_file bound:
\* copy2(backup_file, index_path) when the backup file exists; a failure of
\* that copy is logged (lines 316-318)
Handler(tgt, mtime, bks, name, rfault, part, now, flags) ==
  LET found == BackupNamed(bks, name)
  IN  IF found = {}
      THEN Outcome(FALSE, "error", tgt, mtime, TRUE, bks, flags)
      ELSE RestoreCopy("error", "error", tgt, mtime, bks,
                       CHOOSE x \in found : TRUE, rfault, part, now, flags)

\* the check with the count test left out
MarkersValid_presence(content) == Count(content, start_marker) >= 1

\* not (start_marker not in content or content.count(start_marker) != 2)
MarkersValid(content) ==
  Count(content, start_marker) >= 1 /\ Count(content, start_marker) = 2

\* the comparison replaced by "always write"
SameContent_never(new_content, content) == FALSE

\* new_content == content, line 298
SameContent(new_content, content) == new_content = content

\* lines 277-307, after the backup step
PatchAfterBackup(tgt, tm, schedule_html, fault, rfault, part, bks, name, now, f0) ==
  IF fault = "read"
  THEN Handler(tgt, tm, bks, name, rfault, part, now,
               [f0 EXCEPT !.fault = "read"])
  ELSE
  LET content == ReadText(tgt)
      f1 == [f0 EXCEPT !.read = TRUE]
  IN
  IF ~MarkersValid(content)
  THEN Outcome(FALSE, "marker_mismatch", tgt, tm, TRUE, bks, f1)
  ELSE
  LET repl == ExpandTemplate(ScheduleSection(schedule_html)) IN
  IF ~repl.ok
  THEN Handler(tgt, tm, bks, name, rfault, part, now, f1)
  ELSE
  LET new_content == ReSubSection(content, repl.text) IN
  IF SameContent(new_content, content)
  THEN Outcome(TRUE, "noop", tgt, tm, TRUE, bks, f1)
  ELSE IF fault = "write_open"
  THEN Handler(tgt, tm, bks, name, rfault, part, now,
               [f1 EXCEPT !.fault = "write_open"])
  ELSE IF fault = "write_data"
  THEN Handler(Partial(WriteText(new_content), part), now, bks, name, rfault, part, now,
               [f1 EXCEPT !.fault = "write_data", !.wrote = TRUE])
  ELSE Outcome(TRUE, "written", WriteText(new_content), now, TRUE, bks,
               [f1 EXCEPT !.wrote = TRUE])

\* the backup step with a failing copy2 swallowed: the patch goes on
TakeBackupThenPatch_ignore(tgt, tm, schedule_html, fault, rfault, part, kept, name, now, born) ==
  IF fault \in {"copy_open", "copy_data", "copy_stat"}
  THEN PatchAfterBackup(tgt, tm, schedule_html, "none", rfault, part, kept, name, now,
                        NoFlags)
  ELSE PatchAfterBackup(tgt, tm, schedule_html, fault, rfault, part,
                        PutBackup(kept, name, tgt, tm, born),
                        name, now, [NoFlags EXCEPT !.copied = TRUE])

\* lines 270-275 and what follows: shutil.copy2(index_path, backup_file)
\* copies the bytes and then the mtime; a failure enters the except branch
TakeBackupThenPatch(tgt, tm, schedule_html, fault, rfault, part, kept, name, now, born) ==
  IF fault = "copy_open"
  THEN Handler(tgt, tm, kept, name, rfault, part, now,
               [NoFlags EXCEPT !.fault = "copy_open"])
  ELSE IF fault = "copy_data"
  THEN Handler(tgt, tm,
               PutBackup(kept, name, Partial(tgt, part), now, born),
               name, rfault, part, now, [NoFlags EXCEPT !.fault = "copy_data"])
  ELSE IF fault = "copy_stat"
  THEN Handler(tgt, tm,
               PutBackup(kept, name, tgt, now, born),
               name, rfault, part, now, [NoFlags EXCEPT !.fault = "copy_stat"])
  ELSE PatchAfterBackup(tgt, tm, schedule_html, fault, rfault, part,
                        PutBackup(kept, name, tgt, tm, born),
                        name, now, [NoFlags EXCEPT !.copied = TRUE])

\* the emptiness check without the strip() half
Rejected_nostrip(exists, schedule_html) ==
  IF ~exists THEN "not_found"
  ELSE IF schedule_html = <<>> THEN "empty_fragment"
  ELSE "no"

\* lines 248-255: the two early returns
Rejected(exists, schedule_html) ==
  IF ~exists THEN "not_found"
  ELSE IF schedule_html = <<>> \/ IsBlank(schedule_html)
  THEN "empty_fragment"
  ELSE "no"

\* the I/O errors a call can meet: none when it returns before any I/O
FaultsFor(schedule_html) ==
  IF Rejected(targetExists, schedule_html) # "no" THEN {"none"}
  ELSE FaultPool

\* update_index_html(index_path, schedule_html) on the file index_path with
\* content tgt and modification time tm, called at time now as the born-th
\* call; fault, rfault and part say where an I/O error strikes, del is the
\* set of backups the pruning removes
PatchFile(exists, tgt, tm, dir, bks, schedule_html, fault, rfault, part, del, now, born) ==
  IF Rejected(exists, schedule_html) # "no"
  THEN Outcome(FALSE, Rejected(exists, schedule_html), tgt, tm, dir, bks,
               NoFlags)
  ELSE IF fault = "mkdir"
  THEN Outcome(FALSE, "error", tgt, tm, dir, bks,
               [NoFlags EXCEPT !.fault = "mkdir"])
  ELSE IF fault = "glob"
  THEN Outcome(FALSE, "error", tgt, tm, TRUE, bks,
               [NoFlags EXCEPT !.fault = "glob"])
  ELSE TakeBackupThenPatch(tgt, tm, schedule_html, fault, rfault, part,
                           bks \ del, Second(now), now, born)

\* the call on the index.html of the model's state
update_index_html(schedule_html, fault, rfault, part, del, now, born) ==
  PatchFile(targetExists, target, targetMtime, backupDir, backups,
            schedule_html, fault, rfault, part, del, now, born)

----------------------------------------------------------------------------
(* update_index_html of the standalone scripts (schedule/img-converter.py  *)
(* and schedule/img-text-converter.py, the same text in both): no check of *)
(* the fragment, of the markers or of a change, and an except branch that  *)
(* copies the backup back without asking whether it exists.                *)

\* the standalone function has no return statement: its value is None
\* on every path that returns
NoneValue == "None"

StandaloneOutcome(kind, tgt, mtime, dir, bks, flags) ==
  [Outcome(FALSE, kind, tgt, mtime, dir, bks, flags)
     EXCEPT !.result = NoneValue]

\* the except branch, lines 343-349, entered with backup_file bound:
\* shutil.copy2(backup_file, INDEX_FILE), whose own failure leaves the
\* function as an exception
StandaloneHandler(tgt, mtime, bks, name, rfault, part, now, flags) ==
  LET found == BackupNamed(bks, name)
  IN  IF found = {}
      THEN StandaloneOutcome("raised", tgt, mtime, TRUE, bks, flags)
      ELSE [RestoreCopy("error", "raised", tgt, mtime, bks,
                        CHOOSE x \in found : TRUE, rfault, part, now, flags)
              EXCEPT !.result = NoneValue]

\* lines 323-341, after the backup step
StandalonePatch(schedule_html, fault, rfault, part, bks, name, now, f0) ==
  IF fault = "read"
  THEN StandaloneHandler(target, targetMtime, bks, name, rfault, part, now,
                         [f0 EXCEPT !.fault = "read"])
  ELSE
  LET content == ReadText(target)
      f1 == [f0 EXCEPT !.read = TRUE]
      repl == ExpandTemplate(ScheduleSection(schedule_html))
  IN
  IF ~repl.ok
  THEN StandaloneHandler(target, targetMtime, bks, name, rfault, part, now, f1)
  ELSE
  LET new_content == ReSubSection(content, repl.text) IN
  IF fault = "write_open"
  THEN StandaloneHandler(target, targetMtime, bks, name, rfault, part, now,
                         [f1 EXCEPT !.fault = "write_open"])
  ELSE IF fault = "write_data"
  THEN StandaloneHandler(Partial(WriteText(new_content), part), now, bks,
                         name, rfault, part, now,
                         [f1 EXCEPT !.fault = "write_data", !.wrote = TRUE])
  ELSE StandaloneOutcome("written", WriteText(new_content), now, TRUE, bks,
                         [f1 EXCEPT !.wrote = TRUE])

\* lines 300-349 of schedule/img-text-converter.py: update_index_html
\* (schedule_html) called at time now as the born-th call
standalone_update_index_html(schedule_html, fault, rfault, part, del, now, born) ==
  LET kept == backups \ del
      name == Second(now)
  IN
  IF fault = "mkdir"
  THEN StandaloneOutcome("error", target, targetMtime, backupDir, backups,
                         [NoFlags EXCEPT !.fault = "mkdir"])
  ELSE IF fault = "glob"
  THEN StandaloneOutcome("error", target, targetMtime, TRUE, backups,
                         [NoFlags EXCEPT !.fault = "glob"])
  ELSE IF ~targetExists \/ fault = "copy_open"
  THEN StandaloneHandler(target, targetMtime, kept, name, rfault, part, now,
                         [NoFlags EXCEPT !.fault = "copy_open"])
  ELSE IF fault = "copy_data"
  THEN StandaloneHandler(target, targetMtime,
                         PutBackup(kept, name, Partial(target, part), now,
                                   born),
                         name, rfault, part, now, [NoFlags EXCEPT !.fault = "copy_data"])
  ELSE IF fault = "copy_stat"
  THEN StandaloneHandler(target, targetMtime,
                         PutBackup(kept, name, target, now, born),
                         name, rfault, part, now, [NoFlags EXCEPT !.fault = "copy_stat"])
  ELSE StandalonePatch(schedule_html, fault, rfault, part,
                       PutBackup(kept, name, target, targetMtime, born),
                       name, now, [NoFlags EXCEPT !.copied = TRUE])

----------------------------------------------------------------------------
(* process_text: the normalizer and the line tagger.  A Cyrillic word is   *)
(* one element of a text, written here in Latin transliteration            *)
(* ("Aprelya" for the genitive of April, "Ponedelnik" for Monday,          *)
(* "Raspisanie", " ", "Bogosluzhenij" for the title phrase, "Prihoda" for  *)
(* the parish word); two words never stand next to each other without a    *)
(* separator in the texts used here.                                       *)

\* the months of the heading pattern of line 133, in full
MonthWords ==
  { "Yanvarj", "Yanvarya", "Fevralj", "Fevralya", "Mart", "Marta", "Aprelj",
    "Aprelya", "Maj", "Maya", "Iyunj", "Iyunya", "Iyulj", "Iyulya", "Avgust",
    "Avgusta", "Sentyabrj", "Sentyabrya", "Oktyabrj", "Oktyabrya", "Noyabrj",
    "Noyabrya", "Dekabrj", "Dekabrya" }

\* the stems that the classes [soft sign|ya] and [short i|ya] also accept before a "|"
MonthStems ==
  { "Yanvar", "Fevral", "Aprel", "Ma", "Iyun", "Iyul", "Sentyabr", "Oktyabr",
    "Noyabr", "Dekabr" }

\* the weekdays of the heading pattern of line 133
WeekdayWords ==
  { "Ponedelnik", "Vtornik", "Sreda", "Sredu", "Chetverg", "Pyatnica",
    "Pyatnicu", "Subbota", "Subbotu", "Voskresenje" }

\* the stems that the class [a|u] also accepts before a "|"
WeekdayStems == { "Sred", "Pyatnic", "Subbot" }

\* other words made of Cyrillic letters only
OtherWords ==
  { "Raspisanie", "Bogosluzhenij", "Prihoda", "Liturgiya", "Vechernya",
    "aprelya", "ponedelnik", "vtornik" }

CyrWords ==
  MonthWords \cup MonthStems \cup WeekdayWords \cup WeekdayStems
    \cup OtherWords

\* re.IGNORECASE on the words used here
CaseFold(t) ==
  IF t = "aprelya" THEN "Aprelya"
  ELSE IF t = "ponedelnik" THEN "Ponedelnik"
  ELSE IF t = "vtornik" THEN "Vtornik"
  ELSE t

\* the element at position i, "" outside the text
At(s, i) == IF i \in 1..Len(s) THEN s[i] ELSE ""

\* the characters from 128 to 255 that \w matches: the letters and the
\* numeric characters of Latin-1
HighWordChars ==
  { "\\xaa", "\\xb2", "\\xb3", "\\xb5", "\\xb9", "\\xba", "\\xbc", "\\xbd",
    "\\xbe", "\\xc0", "\\xc1", "\\xc2", "\\xc3", "\\xc4", "\\xc5", "\\xc6",
    "\\xc7", "\\xc8", "\\xc9", "\\xca", "\\xcb", "\\xcc", "\\xcd", "\\xce",
    "\\xcf", "\\xd0", "\\xd1", "\\xd2", "\\xd3", "\\xd4", "\\xd5", "\\xd6",
    "\\xd8", "\\xd9", "\\xda", "\\xdb", "\\xdc", "\\xdd", "\\xde", "\\xdf",
    "\\xe0", "\\xe1", "\\xe2", "\\xe3", "\\xe4", "\\xe5", "\\xe6", "\\xe7",
    "\\xe8", "\\xe9", "\\xea", "\\xeb", "\\xec", "\\xed", "\\xee", "\\xef",
    "\\xf0", "\\xf1", "\\xf2", "\\xf3", "\\xf4", "\\xf5", "\\xf6", "\\xf8",
    "\\xf9", "\\xfa", "\\xfb", "\\xfc", "\\xfd", "\\xfe", "\\xff" }

\* \w: a letter or a digit of any script, or the underscore
IsWordChar(c) ==
  \/ c \in Digits
  \/ c \in AsciiLetters
  \/ c = "_"
  \/ c \in HighWordChars
  \/ c \in CyrWords

RECURSIVE SkipSpaces(_, _)
\* where \s* started at i stops
SkipSpaces(s, i) ==
  IF i <= Len(s) /\ s[i] \in Whitespace THEN SkipSpaces(s, i + 1) ELSE i

RECURSIVE NextNewline(_, _)
\* the first "\n" at or after i, 0 when there is none
NextNewline(s, i) ==
  IF i > Len(s) THEN 0
  ELSE IF s[i] = "\n" THEN i
  ELSE NextNewline(s, i + 1)

\* the length of the title phrase or of the parish word when it starts at i
BoilerplateAt(s, i) ==
  IF s[i] = "Raspisanie" /\ At(s, i + 1) = " " /\ At(s, i + 2) = "Bogosluzhenij"
  THEN 3
  ELSE IF s[i] = "Prihoda" THEN 1
  ELSE 0

RECURSIVE RemoveBoilerplate(_, _)
\* the re.sub of line 101: what lies from the title phrase or the parish
\* word through the next "\n" is removed
RemoveBoilerplate(s, i) ==
  IF i > Len(s) THEN <<>>
  ELSE LET k == BoilerplateAt(s, i)
           j == IF k > 0 THEN NextNewline(s, i + k) ELSE 0
       IN  IF j > 0 THEN RemoveBoilerplate(s, j + 1)
           ELSE <<s[i]>> \o RemoveBoilerplate(s, i + 1)

RECURSIVE SkipWord(_, _)
\* where [a-ya]+ started at i stops
SkipWord(s, i) ==
  IF i <= Len(s) /\ s[i] \in CyrWords THEN SkipWord(s, i + 1) ELSE i

\* a match of the pattern of line 105, \b word \s* ( \s* word \s* ), at i:
\* where the first word ends, where the second starts and ends and where
\* the closing parenthesis is, or zeros
ParenAt(s, i) ==
  LET none == [end1 |-> 0, start2 |-> 0, end2 |-> 0, close |-> 0] IN
  IF s[i] \in CyrWords /\ ~IsWordChar(At(s, i - 1))
  THEN LET e == SkipWord(s, i)
           a == SkipSpaces(s, e)
       IN
       IF At(s, a) = "("
       THEN LET b == SkipSpaces(s, a + 1) IN
            IF At(s, b) \in CyrWords
            THEN LET f == SkipWord(s, b)
                     c == SkipSpaces(s, f)
                 IN
                 IF At(s, c) = ")"
                 THEN [end1 |-> e - 1, start2 |-> b, end2 |-> f - 1,
                       close |-> c]
                 ELSE none
            ELSE none
       ELSE none
  ELSE none

RECURSIVE ParenToComma(_, _)
\* lines 104-106: "word (altword)" becomes "word, altword"
ParenToComma(s, i) ==
  IF i > Len(s) THEN <<>>
  ELSE LET m == ParenAt(s, i) IN
       IF m.close > 0
       THEN SubSeq(s, i, m.end1) \o <<",", " ">>
              \o SubSeq(s, m.start2, m.end2)
              \o ParenToComma(s, m.close + 1)
       ELSE <<s[i]>> \o ParenToComma(s, i + 1)

\* the number of hour digits of a match of (\d{1,2})-(\d{2})(?!\d) at i
DashTimeAt(s, i) ==
  IF /\ At(s, i) \in Digits /\ At(s, i + 1) \in Digits /\ At(s, i + 2) = "-"
     /\ At(s, i + 3) \in Digits /\ At(s, i + 4) \in Digits
     /\ At(s, i + 5) \notin Digits
  THEN 2
  ELSE IF /\ At(s, i) \in Digits /\ At(s, i + 1) = "-"
          /\ At(s, i + 2) \in Digits /\ At(s, i + 3) \in Digits
          /\ At(s, i + 4) \notin Digits
  THEN 1
  ELSE 0

RECURSIVE DashToColon_bare(_, _)
\* the replacement without its trailing " -"
DashToColon_bare(s, i) ==
  IF i > Len(s) THEN <<>>
  ELSE LET k == DashTimeAt(s, i) IN
       IF k > 0
       THEN SubSeq(s, i, i + k - 1) \o <<":", s[i + k + 1], s[i + k + 2]>>
              \o DashToColon_bare(s, i + k + 3)
       ELSE <<s[i]>> \o DashToColon_bare(s, i + 1)

RECURSIVE DashToColon(_, _)
\* line 109: "hh-mm" becomes "hh:mm -"
DashToColon(s, i) ==
  IF i > Len(s) THEN <<>>
  ELSE LET k == DashTimeAt(s, i) IN
       IF k > 0
       THEN SubSeq(s, i, i + k - 1) \o <<":", s[i + k + 1], s[i + k + 2],
                                         " ", "-">>
              \o DashToColon(s, i + k + 3)
       ELSE <<s[i]>> \o DashToColon(s, i + 1)

\* a match of (?<!\d)(\d):(\d{2})(?!\d) at i
ShortHourAt(s, i) ==
  /\ At(s, i) \in Digits
  /\ At(s, i - 1) \notin Digits
  /\ At(s, i + 1) = ":"
  /\ At(s, i + 2) \in Digits
  /\ At(s, i + 3) \in Digits
  /\ At(s, i + 4) \notin Digits

RECURSIVE PadHour(_, _)
\* line 112: "h:mm" becomes "0h:mm"
PadHour(s, i) ==
  IF i > Len(s) THEN <<>>
  ELSE IF ShortHourAt(s, i)
  THEN <<"0">> \o SubSeq(s, i, i + 3) \o PadHour(s, i + 4)
  ELSE <<s[i]>> \o PadHour(s, i + 1)

RECURSIVE LastNewlineInRun(_, _)
\* the last "\n" of the whitespace run that starts at i, 0 when none
LastNewlineInRun(s, i) ==
  IF i > Len(s) \/ s[i] \notin Whitespace THEN 0
  ELSE LET r == LastNewlineInRun(s, i + 1) IN
       IF r > 0 THEN r ELSE IF s[i] = "\n" THEN i ELSE 0

RECURSIVE CollapseBlankLines(_, _)
\* re.sub(r"\n\s*\n", "\n", input_text), line 115
CollapseBlankLines(s, i) ==
  IF i > Len(s) THEN <<>>
  ELSE LET j == IF s[i] = "\n" THEN LastNewlineInRun(s, i + 1) ELSE 0 IN
       IF j > 0 THEN <<"\n">> \o CollapseBlankLines(s, j + 1)
       ELSE <<s[i]>> \o CollapseBlankLines(s, i + 1)

RECURSIVE SkipBlanks(_, _)
\* where a run of " " started at i stops
SkipBlanks(s, i) ==
  IF i <= Len(s) /\ s[i] = " " THEN SkipBlanks(s, i + 1) ELSE i

RECURSIVE CollapseSpaces(_, _)
\* re.sub(r"[ ]{2,}", " ", input_text), line 116
CollapseSpaces(s, i) ==
  IF i > Len(s) THEN <<>>
  ELSE IF s[i] = " " /\ At(s, i + 1) = " "
  THEN <<" ">> \o CollapseSpaces(s, SkipBlanks(s, i))
  ELSE <<s[i]>> \o CollapseSpaces(s, i + 1)

\* lines 98-116 without the parenthesis rule of lines 104-106
Normalize_noparen(input_text) ==
  LET t1 == Strip(input_text)
      t2 == RemoveBoilerplate(t1, 1)
      t4 == DashToColon(t2, 1)
      t5 == PadHour(t4, 1)
      t6 == CollapseBlankLines(t5, 1)
  IN  CollapseSpaces(t6, 1)

\* lines 98-116
Normalize(input_text) ==
  LET t1 == Strip(input_text)
      t2 == RemoveBoilerplate(t1, 1)
      t3 == ParenToComma(t2, 1)
      t4 == DashToColon(t3, 1)
      t5 == PadHour(t4, 1)
      t6 == CollapseBlankLines(t5, 1)
  IN  CollapseSpaces(t6, 1)

RECURSIVE JoinLines(_)
\* "\n".join(lines)
JoinLines(lines) ==
  IF lines = <<>> THEN <<>>
  ELSE IF Len(lines) = 1 THEN lines[1]
  ELSE lines[1] \o <<"\n">> \o JoinLines(Tail(lines))

RECURSIVE SplitLines(_)
\* str.split("\n")
SplitLines(s) ==
  LET j == NextNewline(s, 1) IN
  IF j = 0 THEN <<s>>
  ELSE <<SubSeq(s, 1, j - 1)>> \o SplitLines(SubSeq(s, j + 1, Len(s)))

\* the last position of a month name that starts at i, 0 when none does
MonthEnd(s, i) ==
  IF CaseFold(At(s, i)) \in MonthWords THEN i
  ELSE IF CaseFold(At(s, i)) \in MonthStems /\ At(s, i + 1) = "|" THEN i + 1
  ELSE 0

\* a weekday name starts at j (the pattern does not ask where it ends)
WeekdayAt(s, j) ==
  \/ CaseFold(At(s, j)) \in WeekdayWords
  \/ CaseFold(At(s, j)) \in WeekdayStems /\ At(s, j + 1) = "|"

\* the pattern of line 133 matches at i: \b month \s*,\s* weekday
HeadingAt(s, i) ==
  /\ MonthEnd(s, i) > 0
  /\ ~IsWordChar(At(s, i - 1))
  /\ LET a == SkipSpaces(s, MonthEnd(s, i) + 1) IN
       /\ At(s, a) = ","
       /\ WeekdayAt(s, SkipSpaces(s, a + 1))

\* re.search(<heading pattern>, row, flags=re.IGNORECASE), lines 132-136
IsHeading(row) == \E i \in 1..Len(row) : HeadingAt(row, i)

\* re.match(r"\d{1,2}:\d{2}", row), line 146
StartsWithTime(row) ==
  /\ At(row, 1) \in Digits
  /\ \/ At(row, 2) = ":" /\ At(row, 3) \in Digits /\ At(row, 4) \in Digits
     \/ /\ At(row, 2) \in Digits /\ At(row, 3) = ":"
        /\ At(row, 4) \in Digits /\ At(row, 5) \in Digits

RECURSIVE TagRows_sticky(_, _)
\* the loop with prev_was_h3 never cleared by a content line
TagRows_sticky(rows, prev_was_h3) ==
  IF rows = <<>> THEN <<>>
  ELSE LET row == Strip(Head(rows)) IN
       IF row = <<>> THEN TagRows_sticky(Tail(rows), prev_was_h3)
       ELSE IF IsHeading(row)
       THEN <<"<h3>">> \o row \o <<"</h3>", "\n">>
              \o TagRows_sticky(Tail(rows), TRUE)
       ELSE IF prev_was_h3
       THEN <<"<br />">> \o row \o <<"\n">>
              \o TagRows_sticky(Tail(rows), prev_was_h3)
       ELSE <<"<br />", "<br />">> \o row \o <<"\n">>
              \o TagRows_sticky(Tail(rows), FALSE)

RECURSIVE TagRows_single(_, _)
\* the loop with a single break before a line that starts with a time
TagRows_single(rows, prev_was_h3) ==
  IF rows = <<>> THEN <<>>
  ELSE LET row == Strip(Head(rows)) IN
       IF row = <<>> THEN TagRows_single(Tail(rows), prev_was_h3)
       ELSE IF IsHeading(row)
       THEN <<"<h3>">> \o row \o <<"</h3>", "\n">>
              \o TagRows_single(Tail(rows), TRUE)
       ELSE IF prev_was_h3 \/ StartsWithTime(row)
       THEN <<"<br />">> \o row \o <<"\n">>
              \o TagRows_single(Tail(rows), FALSE)
       ELSE <<"<br />", "<br />">> \o row \o <<"\n">>
              \o TagRows_single(Tail(rows), FALSE)

RECURSIVE TagRows(_, _)
\* the loop of lines 126-152
TagRows(rows, prev_was_h3) ==
  IF rows = <<>> THEN <<>>
  ELSE LET row == Strip(Head(rows)) IN
       IF row = <<>> THEN TagRows(Tail(rows), prev_was_h3)
       ELSE IF IsHeading(row)
       THEN <<"<h3>">> \o row \o <<"</h3>", "\n">> \o TagRows(Tail(rows), TRUE)
       ELSE IF prev_was_h3
       THEN <<"<br />">> \o row \o <<"\n">> \o TagRows(Tail(rows), FALSE)
       ELSE IF StartsWithTime(row)
       THEN <<"<br />", "<br />">> \o row \o <<"\n">>
              \o TagRows(Tail(rows), FALSE)
       ELSE IF ~StartsWithTime(row)
       THEN <<"<br />", "<br />">> \o row \o <<"\n">>
              \o TagRows(Tail(rows), FALSE)
       ELSE <<"<br />">> \o row \o <<"\n">> \o TagRows(Tail(rows), FALSE)

RECURSIVE DropSpaceAfter(_, _, _)
\* re.sub(tag + r"\s*", tag, output_text), lines 155-156
DropSpaceAfter(s, tag, i) ==
  IF i > Len(s) THEN <<>>
  ELSE IF s[i] = tag
  THEN <<tag>> \o DropSpaceAfter(s, tag, SkipSpaces(s, i + 1))
  ELSE <<s[i]>> \o DropSpaceAfter(s, tag, i + 1)

\* process_text(input_text): what it hands to its caller.  The function
\* never raises: the except branch of lines 161-163 returns, and no
\* str input reaches that branch.
process_text(input_text) ==
  IF input_text = <<>> \/ IsBlank(input_text)
  THEN [raised |-> "none", value |-> <<>>]
  ELSE LET rows == SplitLines(Strip(Normalize(input_text)))
           output_text == TagRows(rows, FALSE)
       IN  [raised |-> "none",
            value |-> DropSpaceAfter(DropSpaceAfter(output_text, "<br />", 1),
                                     "<h3>", 1)]

----------------------------------------------------------------------------
(* Inputs of process_text *)

TextAlphabet == {" ", "\n", "9", "3", "0", ":", "-", "x"}

RECURSIVE SeqsUpTo(_, _)
\* all texts over alphabet of length at most n
SeqsUpTo(alphabet, n) ==
  IF n = 0 THEN { <<>> }
  ELSE LET shorter == SeqsUpTo(alphabet, n - 1) IN
       shorter \cup { Append(t, c) : t \in shorter, c \in alphabet }

\* a schedule of the expected shape
SampleSchedule ==
  <<"x", "Raspisanie", " ", "Bogosluzhenij", "x", "\n",
    "Aprelya", ",", " ", "Ponedelnik", "\n",
    "0", "8", ":", "0", "0", " ", "Liturgiya", "\n">>

\* texts with a title line: text before the parish word, the parish word
\* on the last line, the parish word at the start of a line
BoilerplateTexts ==
  { <<"x", " ", "Prihoda", " ", "y", "\n", "9", ":", "3", "0">>,
    <<"9", ":", "3", "0", "\n", "Prihoda", " ", "y">>,
    <<"Prihoda", " ", "y", "\n", "9", ":", "3", "0">> }

\* the same schedule with spaces around the title phrase
SampleSpaced ==
  <<"x", " ", "Raspisanie", " ", "Bogosluzhenij", " ", "x", "\n",
    "Aprelya", ",", " ", "Ponedelnik", "\n",
    "0", "8", ":", "0", "0", " ", "Liturgiya">>

\* texts with times: dash and colon forms, one and two hour digits
TimeTexts ==
  { <<"9", "-", "3", "0">>,
    <<"1", "9", "-", "3", "0">>,
    <<"9", ":", "3", "0">>,
    <<"1", "9", ":", "3", "0">>,
    <<"x", " ", "9", "-", "3", "0", " ", "y">>,
    <<"9", "-", "3", "0", "-", "1", "0", "-", "0", "0">>,
    <<"9", ":", "3", "0", "-", "1", "0", ":", "0", "0">>,
    <<"1", "1", "9", "-", "3", "0">>,
    <<"1", "1", "9", ":", "3", "0">> }

\* a date line, a line that starts with a time, a line that does not
HeadingLine == <<"Aprelya", ",", " ", "Ponedelnik">>

TimeLine == <<"0", "9", ":", "0", "0", " ", "x">>

NoteLine == <<"x">>

RowLine(kind) ==
  IF kind = "h" THEN HeadingLine
  ELSE IF kind = "t" THEN TimeLine
  ELSE NoteLine

\* every text of 1 to MaxRows such lines
RowTexts ==
  UNION { { JoinLines([i \in 1..n |-> RowLine(kinds[i])]) :
              kinds \in [1..n -> {"h", "t", "n"}] } : n \in 1..MaxRows }

\* a month and a weekday: the weekday in parentheses, with and without
\* spaces, after a day number, in lower case; and with a space only
ParenTexts ==
  { <<"Aprelya", " ", "(", "Ponedelnik", ")">>,
    <<"Marta", "(", "Sreda", ")">>,
    <<"7", " ", "Aprelya", " ", "(", " ", "ponedelnik", " ", ")">>,
    <<"aprelya", " ", "(", "vtornik", ")", "\n", "0", "9", ":", "0", "0">> }

PlainDateTexts ==
  { <<"Aprelya", " ", "Ponedelnik">>,
    <<"7", " ", "Marta", " ", "Sreda", "\n", "0", "9", ":", "0", "0">> }

\* texts with white space and word characters from outside ASCII, and with
\* an underscore or a sign that is no word character before a month name
BoundaryTexts ==
  { <<"\\x0b">>,
    <<"\\x1c", "\\xa0">>,
    <<"_", "Aprelya", ",", " ", "Ponedelnik">>,
    <<"\\xb5", "Aprelya", " ", "(", "Ponedelnik", ")">>,
    <<"\\xd7", "Aprelya", ",", " ", "Ponedelnik">> }

RawTexts ==
  SeqsUpTo(TextAlphabet, MaxTextLen) \cup {SampleSchedule, SampleSpaced}
    \cup BoilerplateTexts \cup TimeTexts \cup RowTexts \cup ParenTexts
    \cup PlainDateTexts \cup BoundaryTexts

NotRun == [done |-> FALSE, raised |-> "none", value |-> <<>>]

----------------------------------------------------------------------------
(* create_schedule_html: the builder of the schedule fragment.  The fixed  *)
(* pieces of its templates are single elements of the fragment.            *)

\* lines 212-213: what a row starts with
RowOpen ==
  "\n      <!------------------------------ row ------------------------------>\n      <div class=\"row\">"

\* line 213: what a row ends with
RowClose == "\n      </div>\n"

\* lines 200-203: a card up to its heading
CardOpen ==
  "\n        <div class=\"col-lg-3 col-sm-6 probootstrap-animate\">\n          <div class=\"form-group\">\n            "

\* lines 203-204: between the heading and the content
CardMid == "\n            "

\* lines 205-206: what a card ends with
CardClose == "\n          </div>\n        </div>"

RECURSIVE ClosingTag(_, _)
\* the first "</h3>" at or after i with no "\n" before it, 0 when none
ClosingTag(s, i) ==
  IF i > Len(s) \/ s[i] = "\n" THEN 0
  ELSE IF s[i] = "</h3>" THEN i
  ELSE ClosingTag(s, i + 1)

RECURSIVE SplitHeadings(_, _, _)
\* re.split(r"<h3>(.*?)</h3>", text), line 183: the text before a match,
\* the group of the match, and so on; from is where the current piece
\* started and i is where the search for the next match goes on
SplitHeadings(s, from, i) ==
  IF i > Len(s) THEN <<SubSeq(s, from, Len(s))>>
  ELSE LET q == IF s[i] = "<h3>" THEN ClosingTag(s, i + 1) ELSE 0 IN
       IF q > 0
       THEN <<SubSeq(s, from, i - 1), SubSeq(s, i + 1, q - 1)>>
              \o SplitHeadings(s, q + 1, q + 1)
       ELSE SplitHeadings(s, from, i + 1)

RECURSIVE StripEntries(_)
\* [e.strip() for e in entries if e.strip()], line 184
StripEntries(entries) ==
  IF entries = <<>> THEN <<>>
  ELSE IF Strip(Head(entries)) = <<>> THEN StripEntries(Tail(entries))
  ELSE <<Strip(Head(entries))>> \o StripEntries(Tail(entries))

\* lines 200-206: entry_html
EntryHtml(date, content) ==
  <<CardOpen, "<h3>">> \o date \o <<"</h3>", CardMid>> \o content
    \o <<CardClose>>

RECURSIVE Concat(_)
\* "".join(parts)
Concat(parts) ==
  IF parts = <<>> THEN <<>> ELSE Head(parts) \o Concat(Tail(parts))

\* lines 211-214 and 219-222: one row around its cards
RowHtml(current_row) == <<RowOpen>> \o Concat(current_row) \o <<RowClose>>

RECURSIVE BuildRows_noflush(_, _, _, _)
\* the loop without the flush of the last, partial row
BuildRows_noflush(entries, i, rows, current_row) ==
  IF i > Len(entries) THEN rows
  ELSE IF i + 1 <= Len(entries)
  THEN LET row == Append(current_row, EntryHtml(entries[i], entries[i + 1]))
       IN  IF Len(row) = 4
           THEN BuildRows_noflush(entries, i + 2, Append(rows, RowHtml(row)),
                                  <<>>)
           ELSE BuildRows_noflush(entries, i + 2, rows, row)
  ELSE BuildRows_noflush(entries, i + 2, rows, current_row)

RECURSIVE BuildRows_lone(_, _, _, _)
\* the loop with a last entry that has no partner rendered as a card
BuildRows_lone(entries, i, rows, current_row) ==
  IF i > Len(entries)
  THEN IF current_row # <<>> THEN Append(rows, RowHtml(current_row))
       ELSE rows
  ELSE LET content == IF i + 1 <= Len(entries) THEN entries[i + 1] ELSE <<>>
           row == Append(current_row, EntryHtml(entries[i], content))
       IN  IF Len(row) = 4
           THEN BuildRows_lone(entries, i + 2, Append(rows, RowHtml(row)),
                               <<>>)
           ELSE BuildRows_lone(entries, i + 2, rows, row)

RECURSIVE BuildRows(_, _, _, _)
\* the loop of lines 195-215 from index i (counted from 1) on, and the
\* flush of lines 218-222
BuildRows(entries, i, rows, current_row) ==
  IF i > Len(entries)
  THEN IF current_row # <<>> THEN Append(rows, RowHtml(current_row))
       ELSE rows
  ELSE IF i + 1 <= Len(entries)
  THEN LET row == Append(current_row, EntryHtml(entries[i], entries[i + 1]))
       IN  IF Len(row) = 4
           THEN BuildRows(entries, i + 2, Append(rows, RowHtml(row)), <<>>)
           ELSE BuildRows(entries, i + 2, rows, row)
  ELSE BuildRows(entries, i + 2, rows, current_row)

\* the entries of lines 183-184
Entries(text) == StripEntries(SplitHeadings(text, 1, 1))

\* create_schedule_html(text): what it hands to its caller.  No str input
\* reaches the except branch of lines 227-229.
create_schedule_html(text) ==
  IF text = <<>> \/ IsBlank(text)
  THEN [raised |-> "none", value |-> <<>>]
  ELSE LET entries == Entries(text) IN
       IF entries = <<>> THEN [raised |-> "none", value |-> <<>>]
       ELSE [raised |-> "none",
             value |-> JoinLines(BuildRows(entries, 1, <<>>, <<>>))]

----------------------------------------------------------------------------
(* Inputs of create_schedule_html: tagged texts as process_text and the    *)
(* edit handler write them, one heading or one content line per line.  The *)
(* text of line i is the number i, so that every line can be told apart.   *)

RECURSIVE LStripStar(_)
LStripStar(s) == IF s # <<>> /\ Head(s) = "*" THEN LStripStar(Tail(s)) ELSE s

RECURSIVE RStripStar(_)
RStripStar(s) ==
  IF s # <<>> /\ s[Len(s)] = "*"
  THEN RStripStar(SubSeq(s, 1, Len(s) - 1))
  ELSE s

RECURSIVE EditedToHtml(_)
\* bot.py lines 1137-1146 over the lines of the edited message
EditedToHtml(lines) ==
  IF lines = <<>> THEN <<>>
  ELSE LET line == Strip(Head(lines)) IN
       IF line # <<>> /\ Head(line) = "*" /\ line[Len(line)] = "*"
       THEN <<"<h3>">> \o RStripStar(LStripStar(line)) \o <<"</h3>", "\n">>
              \o EditedToHtml(Tail(lines))
       ELSE <<"<br />">> \o line \o <<"\n">> \o EditedToHtml(Tail(lines))

DigitOf == <<"0", "1", "2", "3", "4", "5", "6", "7", "8", "9">>

\* the decimal digits of i, 0 <= i < 100
DigitStr(i) ==
  IF i < 10 THEN <<DigitOf[i + 1]>>
  ELSE <<DigitOf[(i \div 10) + 1], DigitOf[(i % 10) + 1]>>

\* line i as process_text writes it: a heading (line 138), a content line
\* right after a heading with one break (line 142), any other content line
\* with two (lines 146-150, whether or not the row starts with a time; the
\* else of line 152 cannot be reached)
TaggedLine(kind, i, prev_was_h3) ==
  IF kind = "h" THEN <<"<h3>">> \o DigitStr(i) \o <<"</h3>", "\n">>
  ELSE IF prev_was_h3 THEN <<"<br />">> \o DigitStr(i) \o <<"\n">>
  ELSE <<"<br />", "<br />">> \o DigitStr(i) \o <<"\n">>

RECURSIVE TaggedText(_, _, _)
\* the lines of the kinds given, from line i on; prev_was_h3 is set by a
\* heading and cleared by a content line (lines 123, 138, 143)
TaggedText(kinds, i, prev_was_h3) ==
  IF i > Len(kinds) THEN <<>>
  ELSE TaggedLine(kinds[i], i, prev_was_h3)
         \o TaggedText(kinds, i + 1, kinds[i] = "h")

\* every text of at most MaxLines heading and content lines
LineTexts ==
  UNION { { TaggedText(kinds, 1, FALSE) : kinds \in [1..n -> {"h", "c"}] } :
          n \in 0..MaxLines }

\* n headings, each followed by one content line
RegularText(n) ==
  TaggedText([i \in 1..(2 * n) |-> IF i % 2 = 1 THEN "h" ELSE "c"], 1,
             FALSE)

\* the same lines as the edit handler writes them from "*i*" and "i"
\* (bot.py lines 1137-1146): every content line with one break
EditedLineTexts ==
  UNION { { EditedToHtml([i \in 1..n |->
                            IF kinds[i] = "h"
                            THEN <<"*">> \o DigitStr(i) \o <<"*">>
                            ELSE DigitStr(i)]) :
            kinds \in [1..n -> {"h", "c"}] } : n \in 0..MaxLines }

\* blank texts, an empty heading as the edit handler writes it for "**",
\* and what process_text returns for the sample schedules
OtherTaggedTexts ==
  { <<" ", "\n">>,
    <<"<h3>", "</h3>", "\n", "<br />", "1", "\n", "<h3>", "2", "</h3>", "\n",
      "<br />", "3", "\n">>,
    process_text(SampleSchedule).value,
    process_text(SampleSpaced).value }

TaggedTexts ==
  LineTexts \cup EditedLineTexts \cup { RegularText(n) : n \in 0..MaxCards }
    \cup OtherTaggedTexts

----------------------------------------------------------------------------
(* The bot: TextProcessor and the handlers that feed it (bot.py).  The     *)
(* usage statistics and the temporary files are not part of the model.     *)

None == [some |-> FALSE, text |-> <<>>]

Some(t) == [some |-> TRUE, text |-> t]

\* the last event: what the handler was given and answered, the state of
\* text_processor before it, and (latest) the tagged text made from the most
\* recent upload or edit that is still pending
NoEvent ==
  [n |-> 0, event |-> "none", reply |-> "none", called |-> FALSE,
   input |-> <<>>, preCurrent |-> None, preEdited |-> None,
   local |-> "none", patcher |-> "none", latest |-> None,
   preLatest |-> None]

\* what extract_text_from_txt / extract_text_from_docx / the OCR return
UploadTexts ==
  { <<>>, <<" ", "\n">>, <<"x">>, <<"9", "-", "3", "0", " ", "x">>,
    SampleSchedule, JoinLines(<<HeadingLine, TimeLine>>) }

\* the text messages the admin sends as an edit
EditMessages ==
  { <<"x">>,
    <<"*", "Aprelya", ",", " ", "Ponedelnik", "*", "\n",
      "0", "9", ":", "0", "0", " ", "Liturgiya">>,
    <<"*">> }

\* extract_text_from_docx joins the non-blank paragraphs: its result is
\* empty or not blank; extract_text_from_txt returns the file as it is
ExtractedTexts(file_ext) ==
  IF file_ext = ".docx"
  THEN { t \in UploadTexts : t = <<>> \/ ~IsBlank(t) }
  ELSE UploadTexts

\* recognize_text_from_image, lines 360-367: "" when the OCR text is blank
recognize_text_from_image(ocr) == IF IsBlank(ocr) THEN <<>> ELSE ocr

\* text_processor.set_current(process_text(text)), bot.py lines 1007, 1078
StoreProcessed(text) == Some(process_text(text).value)

Event(kind, reply, called, input) ==
  [n |-> botLast.n + 1, event |-> kind, reply |-> reply, called |-> called,
   input |-> input, preCurrent |-> current_text, preEdited |-> edited_text,
   local |-> "none", patcher |-> "none", latest |-> botLast.latest,
   preLatest |-> botLast.latest]

\* handle_document, bot.py lines 964-1042
HandleDocument ==
  /\ botLast.n < MaxEvents
  /\ \E admin \in BOOLEAN, file_ext \in {".docx", ".txt", ".pdf"},
        downloaded \in BOOLEAN :
     \E text \in ExtractedTexts(file_ext) :
       IF ~admin
       THEN /\ botLast' = Event("document", "none", FALSE, <<>>)
            /\ UNCHANGED <<current_text, edited_text>>
       ELSE IF file_ext \notin {".docx", ".txt"}
       THEN /\ botLast' = Event("document", "bad_format", FALSE, <<>>)
            /\ UNCHANGED <<current_text, edited_text>>
       ELSE IF ~downloaded
       THEN \* the except branch, line 1042, calls traceback.format_exc(),
            \* and the module does not import traceback: a NameError
            \* leaves the handler before the error reply of line 1043
            /\ botLast' = Event("document", "raised", FALSE, <<>>)
            /\ UNCHANGED <<current_text, edited_text>>
       ELSE IF text = <<>>
       THEN /\ botLast' = Event("document", "no_text", FALSE, text)
            /\ UNCHANGED <<current_text, edited_text>>
       ELSE /\ current_text' = StoreProcessed(text)
            /\ botLast' = [Event("document", "result", TRUE, text)
                             EXCEPT !.latest = StoreProcessed(text)]
            /\ UNCHANGED edited_text
  /\ UNCHANGED <<scenario, patchVars, textVars, repoVars>>

\* handle_photo, bot.py lines 1044-1113
HandlePhoto ==
  /\ botLast.n < MaxEvents
  /\ \E admin \in BOOLEAN, downloaded \in BOOLEAN, ocr \in UploadTexts :
       LET text == recognize_text_from_image(ocr) IN
       IF ~admin
       THEN /\ botLast' = Event("photo", "none", FALSE, <<>>)
            /\ UNCHANGED <<current_text, edited_text>>
       ELSE IF ~downloaded
       THEN /\ botLast' = Event("photo", "error", FALSE, <<>>)
            /\ UNCHANGED <<current_text, edited_text>>
       ELSE IF text = <<>>
       THEN /\ botLast' = Event("photo", "no_text", FALSE, text)
            /\ UNCHANGED <<current_text, edited_text>>
       ELSE /\ current_text' = StoreProcessed(text)
            /\ botLast' = [Event("photo", "result", TRUE, text)
                             EXCEPT !.latest = StoreProcessed(text)]
            /\ UNCHANGED edited_text
  /\ UNCHANGED <<scenario, patchVars, textVars, repoVars>>

\* handle_edited_text, bot.py lines 1115-1160
HandleEditedText ==
  /\ botLast.n < MaxEvents
  /\ \E admin \in BOOLEAN, conversation_active \in BOOLEAN,
        message \in EditMessages :
       IF ~admin \/ conversation_active
       THEN /\ botLast' = Event("edited", "none", FALSE, <<>>)
            /\ UNCHANGED <<current_text, edited_text>>
       ELSE IF ~current_text.some
       THEN /\ botLast' = Event("edited", "no_current", FALSE, message)
            /\ UNCHANGED <<current_text, edited_text>>
       ELSE /\ edited_text' = Some(message)
            /\ current_text' = Some(EditedToHtml(SplitLines(message)))
            /\ botLast' =
                 [Event("edited", "updated", FALSE, message)
                    EXCEPT !.latest = Some(EditedToHtml(SplitLines(message)))]
  /\ UNCHANGED <<scenario, patchVars, textVars, repoVars>>

\* cancel, bot.py lines 455-463, and the "cancel" button, lines 1759-1767
Cancel ==
  /\ botLast.n < MaxEvents
  /\ \E admin \in BOOLEAN :
       IF ~admin
       THEN /\ botLast' = Event("cancel", "none", FALSE, <<>>)
            /\ UNCHANGED <<current_text, edited_text>>
       ELSE /\ current_text' = None
            /\ edited_text' = None
            /\ botLast' = [Event("cancel", "cancelled", FALSE, <<>>)
                             EXCEPT !.latest = None]
  /\ UNCHANGED <<scenario, patchVars, textVars, repoVars>>

\* TextProcessor.get_final_text, bot.py lines 115-117: a value that is None
\* or "" is false
get_final_text ==
  IF edited_text.some /\ edited_text.text # <<>> THEN edited_text
  ELSE current_text

\* index.html of the bot's deployment and of the repository at the start
BotIndex == <<"x", start_marker, "y", start_marker, "x">>

\* the I/O errors the local update meets in the bot scenario
BotFaults == {"none", "write_open"}

\* pull_from_github, bot.py lines 263-288, at time now: with REPO_URL set
\* and a clone that works, shutil.copy2 puts the repository's index.html
\* (checked out at the time of the clone) over INDEX_HTML_PATH; otherwise it
\* returns (False, message) and the file stays
PulledFile(ok, now) ==
  IF ok THEN [exists |-> TRUE, content |-> repoIndex, mtime |-> now]
  ELSE [exists |-> targetExists, content |-> target, mtime |-> targetMtime]

\* pull_command (/pull), bot.py lines 592-606, and handle_callback with
\* query.data == "pull_github", lines 1214-1224 (the button branch does not
\* look at the user)
Pull ==
  /\ botLast.n < MaxEvents
  /\ \E admin \in BOOLEAN, via \in {"command", "button"},
        repo_url \in BOOLEAN, delay \in DelayPool :
     \E cloned \in (IF repo_url THEN BOOLEAN ELSE {FALSE}) :
       IF via = "command" /\ ~admin
       THEN /\ botLast' = Event("pull", "none", FALSE, <<>>)
            /\ UNCHANGED <<clock, targetExists, target, targetMtime>>
       ELSE LET now == clock + delay
                f == PulledFile(cloned, now)
            IN  /\ targetExists' = f.exists
                /\ target' = f.content
                /\ targetMtime' = f.mtime
                /\ clock' = now + 1
                /\ botLast' = Event("pull",
                                    IF cloned THEN "pulled" ELSE "pull_failed",
                                    FALSE, <<>>)
  /\ UNCHANGED <<scenario, backupDir, backups, last, hist, textVars,
                 current_text, edited_text, repoVars>>

\* handle_callback with query.data == "confirm", bot.py lines 1618-1737.
\* repo_url: REPO_URL is set (unset, REPO_URL.replace raises wherever it is
\* evaluated); pulled: the clone of pull_from_github worked; pushed: the
\* clone of line 1663 worked and, when the clone's index.html was changed,
\* the commit and the push as well, and when it was not changed, the
\* working tree counted as clean (with the untracked backups/ directory
\* counted as dirty, the commit of nothing fails).  The clone is a fresh
\* temporary directory; its update meets no I/O error.
Confirm ==
  /\ botLast.n < MaxEvents
  /\ \E admin \in BOOLEAN, repo_url \in BOOLEAN, delay \in DelayPool :
     \E pulled \in (IF repo_url THEN BOOLEAN ELSE {FALSE}),
        pushed \in (IF repo_url THEN BOOLEAN ELSE {FALSE}) :
       LET final_text == get_final_text IN
       IF ~admin
       THEN /\ botLast' = Event("confirm", "none", FALSE, <<>>)
            /\ UNCHANGED <<current_text, edited_text, patchVars, repoVars>>
       ELSE IF ~final_text.some \/ final_text.text = <<>>
       THEN /\ botLast' = Event("confirm", "no_text", FALSE, <<>>)
            /\ UNCHANGED <<current_text, edited_text, patchVars, repoVars>>
       ELSE
       LET schedule_html == create_schedule_html(final_text.text).value
           now == clock + delay
           f == PulledFile(pulled, now)
       IN
       \E fault \in (IF Rejected(f.exists, schedule_html) = "no"
                      THEN BotFaults ELSE {"none"}),
          del \in PruneChoices(backups) :
       \E rfault \in RestoreFaults(fault, schedule_html) :
       \E part \in PartialLengths(fault, rfault) :
       LET born == hist.calls + 1
           \* line 1644, on INDEX_HTML_PATH
           r == PatchFile(f.exists, f.content, f.mtime, backupDir, backups,
                          schedule_html, fault, rfault, part, del, now, born)
           \* success = True after the call, whatever it returned
           success == f.exists
           github == ~success \/ repo_url
           \* line 1673, on the index.html of the clone
           c == PatchFile(TRUE, repoIndex, now, FALSE, {}, schedule_html,
                          "none", "none", 0, {}, now, born)
           raised == github /\ ~pushed
           \* lines 1676-1681: git add index.html, commit and push make a
           \* new HEAD when the file differs from the one checked out
           committed == github /\ pushed /\ c.target # repoIndex
       IN
       /\ clock' = now + 1
       /\ targetExists' = f.exists
       /\ repoIndex' = IF committed THEN c.target ELSE repoIndex
       /\ repoParents' = IF committed THEN <<repoIndex>> \o repoParents
                         ELSE repoParents
       /\ IF f.exists
          THEN /\ target' = r.target
               /\ targetMtime' = r.mtime
               /\ backupDir' = r.dir
               /\ backups' = r.backups
               /\ last' = [n |-> born, html |-> schedule_html,
                           result |-> r.result, kind |-> r.kind,
                           read |-> r.read, wrote |-> r.wrote,
                           copied |-> r.copied, restored |-> r.restored,
                           fault |-> r.fault, name |-> Second(now),
                           preExists |-> f.exists, preTarget |-> f.content,
                           preMtime |-> f.mtime, preDir |-> backupDir,
                           preBackups |-> backups,
                           deleted |-> backups \ r.backups]
               /\ hist' = [calls |-> born,
                           allOk |-> hist.allOk /\ r.result,
                           clean |-> hist.clean
                                     /\ Count(schedule_html, start_marker) = 0,
                           startTwo |-> hist.startTwo,
                           distinct |-> hist.distinct
                                        /\ (last.n = 0
                                            \/ Second(now) # last.name)]
          ELSE UNCHANGED <<target, targetMtime, backupDir, backups, last,
                           hist>>
       /\ IF raised
          THEN \* the outer except branch, lines 1733-1735: no reset
               /\ botLast' =
                    [Event("confirm", "error", TRUE, final_text.text)
                       EXCEPT !.local = IF f.exists THEN "updated"
                                        ELSE "none",
                              !.patcher = IF ~f.exists THEN "none"
                                          ELSE IF r.result THEN "true"
                                          ELSE "false"]
               /\ UNCHANGED <<current_text, edited_text>>
          ELSE \* text_processor.reset(), line 1725
               /\ botLast' =
                    [Event("confirm", "completed", TRUE, final_text.text)
                       EXCEPT !.local = IF f.exists THEN "updated"
                                        ELSE "none",
                              !.patcher = IF ~f.exists THEN "none"
                                          ELSE IF r.result THEN "true"
                                          ELSE "false",
                              !.latest = None]
               /\ current_text' = None
               /\ edited_text' = None
  /\ UNCHANGED <<scenario, textVars>>

\* handle_callback with query.data == "confirm_rollback", bot.py lines
\* 1255-1267, and rollback_last_commit, lines 314-342 (/rollback, lines
\* 624-642, and the "rollback" button only show this button).  cloned: the
\* clone of line 325 worked; git reset --hard HEAD~1 fails on a HEAD with
\* no parent; pushed: git push --force worked.  Any failure is caught at
\* line 340 and leaves the repository as it was.  The local index.html and
\* text_processor are not touched.
Rollback ==
  /\ botLast.n < MaxEvents
  /\ \E admin \in BOOLEAN, repo_url \in BOOLEAN :
     \E cloned \in (IF repo_url THEN BOOLEAN ELSE {FALSE}),
        pushed \in (IF repo_url THEN BOOLEAN ELSE {FALSE}) :
       IF ~admin
       THEN /\ botLast' = Event("rollback", "none", FALSE, <<>>)
            /\ UNCHANGED repoVars
       ELSE IF cloned /\ repoParents # <<>> /\ pushed
       THEN /\ repoIndex' = Head(repoParents)
            /\ repoParents' = Tail(repoParents)
            /\ botLast' = Event("rollback", "rolled_back", FALSE, <<>>)
       ELSE /\ botLast' = Event("rollback", "rollback_failed", FALSE, <<>>)
            /\ UNCHANGED repoVars
  /\ UNCHANGED <<scenario, patchVars, textVars, current_text, edited_text>>

----------------------------------------------------------------------------
(* Specification *)

NoCall ==
  [n |-> 0, html |-> <<>>, result |-> TRUE, kind |-> "none",
   read |-> FALSE, wrote |-> FALSE, copied |-> FALSE, restored |-> FALSE,
   fault |-> "none", name |-> 0,
   preExists |-> FALSE, preTarget |-> <<>>, preMtime |-> 0,
   preDir |-> FALSE, preBackups |-> {}, deleted |-> {}]

InitFs ==
  /\ clock = 0
  /\ repoIndex = BotIndex
  /\ repoParents = <<>>
  /\ targetMtime = 0
  /\ backupDir = FALSE
  /\ backups = {}
  /\ last = NoCall
  /\ hist = [calls |-> 0, allOk |-> TRUE, distinct |-> TRUE, clean |-> TRUE,
             startTwo |-> Count(ReadText(target), start_marker) = 2]

\* TextProcessor.__init__ / reset(), bot.py lines 95-103
InitBot ==
  /\ current_text = None
  /\ edited_text = None
  /\ botLast = NoEvent

InitText ==
  /\ ptIn = <<>>
  /\ ptOut = NotRun
  /\ csIn = <<>>
  /\ csOut = NotRun

Init ==
  /\ scenario = "faults"
  /\ \/ targetExists = TRUE /\ target \in TargetContents
     \/ targetExists = FALSE /\ target = <<>>
  /\ InitFs
  /\ InitText
  /\ InitBot

InitTemplate ==
  /\ scenario = "template"
  /\ targetExists = TRUE
  /\ target \in TargetContents
  /\ InitFs
  /\ InitText
  /\ InitBot

InitRetention ==
  /\ scenario = "retention"
  /\ targetExists = TRUE
  /\ target \in { <<"x", start_marker, "y", start_marker, "x">>,
                   ReSubSection(<<"x", start_marker, "y", start_marker, "x">>,
                                ScheduleSection(<<"x">>)) }
  /\ InitFs
  /\ InitText
  /\ InitBot

\* one call of update_index_html, delay ticks after the previous one
Patch ==
  /\ hist.calls < CallLimit
  /\ \E schedule_html \in Pool, delay \in DelayPool,
        del \in PruneChoices(backups) :
     \E fault \in FaultsFor(schedule_html) :
     \E rfault \in RestoreFaults(fault, schedule_html) :
     \E part \in PartialLengths(fault, rfault) :
       LET now == clock + delay
           born == hist.calls + 1
       IN
       \* the outcome of the call
       \E r \in { update_index_html(schedule_html, fault, rfault, part, del,
                                    now, born) } :
           /\ target' = r.target
           /\ targetMtime' = r.mtime
           /\ backupDir' = r.dir
           /\ backups' = r.backups
           /\ clock' = now + 1
           /\ last' = [n |-> born, html |-> schedule_html,
                       result |-> r.result, kind |-> r.kind,
                       read |-> r.read, wrote |-> r.wrote,
                       copied |-> r.copied, restored |-> r.restored,
                       fault |-> r.fault, name |-> Second(now),
                       preExists |-> targetExists, preTarget |-> target,
                       preMtime |-> targetMtime, preDir |-> backupDir,
                       preBackups |-> backups,
                       deleted |-> backups \ r.backups]
           /\ hist' = [calls |-> born,
                       allOk |-> hist.allOk /\ r.result,
                       clean |-> hist.clean
                                 /\ Count(schedule_html, start_marker) = 0,
                       startTwo |-> hist.startTwo,
                       distinct |-> hist.distinct
                                    /\ (last.n = 0 \/ Second(now) # last.name)]
  /\ UNCHANGED <<scenario, targetExists, repoVars>>
  /\ UNCHANGED <<textVars, botVars>>

Next == Patch

Spec == Init /\ [][Next]_vars

SpecRetention == InitRetention /\ [][Next]_vars

SpecTemplate == InitTemplate /\ [][Next]_vars

\* the standalone scripts: index.html before the first run
InitStandalone ==
  /\ scenario = "standalone"
  /\ \/ targetExists = TRUE /\ target \in TargetContents
     \/ targetExists = FALSE /\ target = <<>>
  /\ InitFs
  /\ InitText
  /\ InitBot

\* one call of the standalone update_index_html
PatchStandalone ==
  /\ hist.calls < CallLimit
  /\ \E schedule_html \in Pool, delay \in DelayPool,
        del \in PruneChoices(backups) :
     \E fault \in FaultPool :
     \E rfault \in RestoreFaults(fault, schedule_html) :
     \E part \in PartialLengths(fault, rfault) :
       LET now == clock + delay
           born == hist.calls + 1
       IN
       \* the outcome of the call
       \E r \in { standalone_update_index_html(schedule_html, fault, rfault,
                                               part, del, now, born) } :
           /\ target' = r.target
           /\ targetMtime' = r.mtime
           /\ backupDir' = r.dir
           /\ backups' = r.backups
           /\ clock' = now + 1
           /\ last' = [n |-> born, html |-> schedule_html,
                       result |-> r.result, kind |-> r.kind,
                       read |-> r.read, wrote |-> r.wrote,
                       copied |-> r.copied, restored |-> r.restored,
                       fault |-> r.fault, name |-> Second(now),
                       preExists |-> targetExists, preTarget |-> target,
                       preMtime |-> targetMtime, preDir |-> backupDir,
                       preBackups |-> backups,
                       deleted |-> backups \ r.backups]
           /\ hist' = [calls |-> born,
                       allOk |-> hist.allOk /\ r.kind = "written",
                       clean |-> hist.clean
                                 /\ Count(schedule_html, start_marker) = 0,
                       startTwo |-> hist.startTwo,
                       distinct |-> hist.distinct
                                    /\ (last.n = 0 \/ Second(now) # last.name)]
  /\ UNCHANGED <<scenario, targetExists, repoVars>>
  /\ UNCHANGED <<textVars, botVars>>

NextStandalone == PatchStandalone

SpecStandalone == InitStandalone /\ [][NextStandalone]_vars

\* process_text applied to one raw text
InitProcess ==
  /\ scenario = "text"
  /\ targetExists = TRUE
  /\ target = <<>>
  /\ InitFs
  /\ ptIn \in RawTexts
  /\ ptOut = NotRun
  /\ csIn = <<>>
  /\ csOut = NotRun
  /\ InitBot

ProcessText ==
  /\ ptOut = NotRun
  /\ ptOut' = [done |-> TRUE, raised |-> process_text(ptIn).raised,
               value |-> process_text(ptIn).value]
  /\ UNCHANGED <<scenario, patchVars, ptIn, csIn, csOut, botVars, repoVars>>

NextText == ProcessText

SpecText == InitProcess /\ [][NextText]_vars

\* create_schedule_html applied to one tagged text
InitBuild ==
  /\ scenario = "build"
  /\ targetExists = TRUE
  /\ target = <<>>
  /\ InitFs
  /\ ptIn = <<>>
  /\ ptOut = NotRun
  /\ csIn \in TaggedTexts
  /\ csOut = NotRun
  /\ InitBot

Build ==
  /\ csOut = NotRun
  /\ csOut' = [done |-> TRUE, raised |-> create_schedule_html(csIn).raised,
               value |-> create_schedule_html(csIn).value]
  /\ UNCHANGED <<scenario, patchVars, ptIn, ptOut, csIn, botVars, repoVars>>

NextBuild == Build

SpecBuild == InitBuild /\ [][NextBuild]_vars

\* the bot's upload, edit, cancel, pull and confirm handlers
InitHandlers ==
  /\ scenario = "bot"
  /\ \/ targetExists = TRUE /\ target = BotIndex
     \/ targetExists = FALSE /\ target = <<>>
  /\ InitFs
  /\ InitText
  /\ InitBot

NextBot ==
  \/ HandleDocument
  \/ HandlePhoto
  \/ HandleEditedText
  \/ Cancel
  \/ Pull
  \/ Confirm
  \/ Rollback

SpecBot == InitHandlers /\ [][NextBot]_vars

----------------------------------------------------------------------------
(* Properties of the patcher *)

\* the text before the first marker of s
BeforeFirstMarker(s) == SubSeq(s, 1, Find(s, start_marker) - 1)

\* the text after the second marker of s
AfterSecondMarker(s) ==
  LET i == Find(s, start_marker)
      rest == SubSeq(s, i + 1, Len(s))
  IN  SubSeq(rest, Find(rest, start_marker) + 1, Len(rest))

\* the file content a patch of s with fragment h is to produce
PatchedForm(s, h) ==
  BeforeFirstMarker(s)
    \o <<start_marker, "\n">> \o h
    \o <<"\n", " ", " ", " ", " ", " ", " ", start_marker>>
    \o AfterSecondMarker(s)

HasBackslash(h) == \E i \in 1..Len(h) : h[i] = "\\"

\* C1: every call that ends in failure leaves the target file's content
\* byte-identical to its content before the call.
C1_FailureLeavesTarget ==
  (last.n > 0 /\ ~last.result) => target = last.preTarget

\* C2: a call on an existing target whose marker count is not two, in
\* which no I/O error is raised, fails, with a marker mismatch when the
\* fragment is not blank, and leaves the target's content and mtime as
\* they were.
C2_MarkerMismatch ==
  ( /\ last.n > 0
    /\ last.preExists
    /\ last.fault = "none"
    /\ Count(last.preTarget, start_marker) # 2 )
  => /\ ~last.result
     /\ ~IsBlank(last.html) => last.kind = "marker_mismatch"
     /\ ~last.wrote
     /\ target = last.preTarget
     /\ targetMtime = last.preMtime

C2_Witness ==
  /\ last.kind = "marker_mismatch"
  /\ Count(last.preTarget, start_marker) = 1
  /\ target = last.preTarget

\* C3: after a successful patch of a target with exactly two markers the
\* file is: the bytes before the first marker, marker, newline, the
\* fragment, newline, six spaces, marker, the bytes after the second
\* marker.
C3_SuccessContent ==
  ( /\ last.n > 0
    /\ last.result
    /\ Count(last.preTarget, start_marker) = 2 )
  => target = PatchedForm(last.preTarget, last.html)

\* C4: after every call the backups directory holds at most 10 backups.
C4_AtMostTen == Cardinality(backups) <= 10

\* C5: after 12 successful patches in 12 distinct seconds, starting from
\* an empty backups directory, exactly 10 backups remain and they are the
\* 10 created last.
C5_TenMostRecent ==
  (hist.calls = 12 /\ hist.allOk /\ hist.distinct)
  => /\ Cardinality(backups) = 10
     /\ { b.born : b \in backups } = 3..12

\* C6: a call whose target does not exist or whose fragment is empty or
\* whitespace-only fails at once: no backups directory and no backup is
\* created, no backup is deleted, the target is neither read nor written.
C6_EarlyReject ==
  (last.n > 0 /\ (~last.preExists \/ IsBlank(last.html)))
  => /\ ~last.result
     /\ last.kind \in {"not_found", "empty_fragment"}
     /\ backupDir = last.preDir
     /\ backups = last.preBackups
     /\ ~last.copied /\ ~last.read /\ ~last.wrote /\ ~last.restored
     /\ target = last.preTarget
     /\ targetMtime = last.preMtime

C6_Witness ==
  /\ last.n > 0
  /\ last.preExists
  /\ last.html = <<" ", "\n">>
  /\ last.kind = "empty_fragment"
  /\ ~backupDir

\* C7: when the target already is what the patch would produce, the call
\* succeeds without writing the target (content and mtime stay).
C7_NoOpNoWrite ==
  ( /\ last.n > 0
    /\ last.preExists
    /\ ~IsBlank(last.html)
    /\ ~HasBackslash(last.html)
    /\ last.fault = "none"
    /\ Count(last.preTarget, start_marker) = 2
    /\ PatchedForm(last.preTarget, last.html) = last.preTarget )
  => /\ last.result
     /\ ~last.wrote
     /\ target = last.preTarget
     /\ targetMtime = last.preMtime

C7_Witness ==
  /\ last.n = 2
  /\ last.html = <<"x">>
  /\ last.kind = "noop"
  /\ last.result
  /\ PatchedForm(last.preTarget, last.html) = last.preTarget

\* C8: the write of the patched content happens only after this same call
\* stored a backup holding the target's pre-call content.
C8_BackupBeforeWrite ==
  last.wrote
  => /\ last.copied
     /\ \E b \in backups :
          /\ b.name = last.name
          /\ b.born = last.n
          /\ b.content = last.preTarget

C8_Witness ==
  /\ last.wrote
  /\ last.kind = "written"
  /\ target # last.preTarget

----------------------------------------------------------------------------
(* Properties of the normalizer and of its callers *)

\* C9: for an empty or whitespace-only raw input process_text signals an
\* error (EmptyInputError) to its caller instead of returning a value.
C9_EmptyInputSignals ==
  (ptOut.done /\ IsBlank(ptIn)) => ptOut.raised = "EmptyInputError"

\* C10: an upload whose normalization fails (process_text returns the
\* empty text) leaves the text the caller held before, when it held one,
\* as it was.
C10_FailedKeepsCurrent ==
  ( /\ botLast.event \in {"document", "photo"}
    /\ botLast.called
    /\ process_text(botLast.input).value = <<>>
    /\ botLast.preCurrent.some
    /\ botLast.preCurrent.text # <<>> )
  => current_text = botLast.preCurrent

\* the line holds the title phrase or the parish word
HasBoilerplate(line) ==
  \E i \in 1..Len(line) : BoilerplateAt(line, i) > 0

\* the text without its lines that hold the title phrase or the parish word
WithoutBoilerplateLines(s) ==
  JoinLines(SelectSeq(SplitLines(s), LAMBDA line : ~HasBoilerplate(line)))

\* C11: every input line that holds the title phrase or the parish word is
\* deleted entirely, wherever it stands: the output is the output for the
\* input without those lines.
C11_BoilerplateLineDeleted ==
  ptOut.done
  => ptOut.value = process_text(WithoutBoilerplateLines(ptIn)).value

\* C12: for a three-line input (a title line with other characters before
\* and after the phrase, the line "Aprelya, Ponedelnik", the line
\* "08:00 Liturgiya") the output is the date line as a heading followed by
\* the time line with a single break, and nothing of the title line.
C12_SampleTagged ==
  (ptOut.done /\ ptIn \in {SampleSchedule, SampleSpaced})
  => ptOut.value =
       <<"<h3>", "Aprelya", ",", " ", "Ponedelnik", "</h3>", "\n",
         "<br />", "0", "8", ":", "0", "0", " ", "Liturgiya", "\n">>

\* the input is one dash-separated time and nothing else
IsDashToken(s) == DashTimeAt(s, 1) > 0 /\ Len(s) = DashTimeAt(s, 1) + 3

\* C13 as stated: for the input "9-30" the output token is "9:30 -".
C13_DashTimeUnpadded ==
  (ptOut.done /\ ptIn = <<"9", "-", "3", "0">>)
  => ptOut.value = <<"<br />", "<br />", "9", ":", "3", "0", " ", "-", "\n">>

\* C13 amended: a dash-separated time H-MM or HH-MM that is the whole input
\* comes out as HH:MM followed by " -": the dash rule turns "9-30" into
\* "9:30 -" and the zero-pad rule then makes it "09:30 -", while "19-30"
\* becomes "19:30 -".
C13_DashTime ==
  (ptOut.done /\ IsDashToken(ptIn))
  => LET k == DashTimeAt(ptIn, 1) IN
     ptOut.value =
       <<"<br />", "<br />">> \o (IF k = 1 THEN <<"0">> ELSE <<>>)
         \o SubSeq(ptIn, 1, k) \o <<":", ptIn[k + 2], ptIn[k + 3]>>
         \o <<" ", "-", "\n">>

C13_Witness ==
  /\ ptOut.done
  /\ ptIn = <<"9", "-", "3", "0">>
  /\ ptOut.value =
       <<"<br />", "<br />", "0", "9", ":", "3", "0", " ", "-", "\n">>

RECURSIVE SkipDigits(_, _)
\* where a run of digits started at i stops
SkipDigits(s, i) ==
  IF i <= Len(s) /\ s[i] \in Digits THEN SkipDigits(s, i + 1) ELSE i

\* a time token starts at i: an hour of one or two digits (a whole run of
\* digits), a separator, a minute of exactly two digits (a whole run);
\* the position after the token, 0 when there is none
TimeTokenAt(s, i, seps) ==
  IF At(s, i) \in Digits /\ At(s, i - 1) \notin Digits
  THEN LET e == SkipDigits(s, i) IN
       IF e - i \in {1, 2} /\ At(s, e) \in seps
          /\ SkipDigits(s, e + 1) = e + 3
       THEN e + 3
       ELSE 0
  ELSE 0

RECURSIVE TimeTokens(_, _, _, _)
\* the time tokens of s from i on, left to right, each as hour ":" minute;
\* pad gives a single-digit hour its leading zero
TimeTokens(s, i, seps, pad) ==
  IF i > Len(s) THEN <<>>
  ELSE LET n == TimeTokenAt(s, i, seps) IN
       IF n = 0 THEN TimeTokens(s, i + 1, seps, pad)
       ELSE <<(IF pad /\ n - i = 4 THEN <<"0">> ELSE <<>>)
                \o SubSeq(s, i, n - 4) \o <<":", s[n - 2], s[n - 1]>>>>
              \o TimeTokens(s, n, seps, pad)

\* C14: the time tokens of the output are the time tokens of the input, in
\* order, each in the form HH:MM with a two-digit hour (a single-digit hour
\* padded, a two-digit hour unchanged), whether the input wrote them with
\* a colon or with a dash.
C14_CanonicalTimes ==
  (ptOut.done /\ ~HasBoilerplate(ptIn))
  => TimeTokens(ptOut.value, 1, {":"}, FALSE)
       = TimeTokens(ptIn, 1, {":", "-"}, TRUE)

----------------------------------------------------------------------------
(* Properties of the builder.  A fragment is read back through the fixed   *)
(* pieces of the templates: RowOpen, CardOpen, CardMid and CardClose.      *)

RECURSIVE RowSizes(_, _, _)
\* the number of cards of each row of the fragment, row by row
RowSizes(out, i, cards) ==
  IF i > Len(out) THEN <<>>
  ELSE IF out[i] = RowOpen THEN RowSizes(out, i + 1, 0)
  ELSE IF out[i] = CardOpen THEN RowSizes(out, i + 1, cards + 1)
  ELSE IF out[i] = RowClose THEN <<cards>> \o RowSizes(out, i + 1, 0)
  ELSE RowSizes(out, i + 1, cards)

RECURSIVE Until(_, _, _)
\* the elements of out from i up to the next element stop
Until(out, i, stop) ==
  IF i > Len(out) \/ out[i] = stop THEN <<>>
  ELSE <<out[i]>> \o Until(out, i + 1, stop)

RECURSIVE Cards(_, _)
\* the cards of the fragment, in order: heading and content of each
Cards(out, i) ==
  IF i > Len(out) THEN <<>>
  ELSE IF out[i] = CardOpen
  THEN LET date == Until(out, i + 2, "</h3>") IN
       <<[date |-> date,
          content |-> Until(out, i + Len(date) + 4, CardClose)]>>
         \o Cards(out, i + 1)
  ELSE Cards(out, i + 1)

\* the pairs create_schedule_html matches in text
PairCount(text) == Len(Entries(text)) \div 2

\* C15: with n heading/content pairs matched the fragment has n cards with
\* one <h3> each, in source order, in ceil(n/4) rows, every row but the
\* last of exactly 4 cards and the last of the remaining 1 to 4.
C15_CardsAndRows ==
  csOut.done
  => LET n == PairCount(csIn)
         sizes == RowSizes(csOut.value, 1, 0)
         cards == Cards(csOut.value, 1)
     IN  /\ Len(cards) = n
         /\ Count(csOut.value, "<h3>") = n
         /\ Len(sizes) = (n + 3) \div 4
         /\ \A r \in 1..Len(sizes) :
              sizes[r] = IF r < Len(sizes) THEN 4 ELSE n - 4 * (r - 1)
         /\ \A k \in 1..n : cards[k].date = Entries(csIn)[2 * k - 1]

C15_Witness ==
  /\ csOut.done
  /\ PairCount(csIn) = 9
  /\ RowSizes(csOut.value, 1, 0) = <<4, 4, 1>>

\* the text before the first heading of a tagged text
Gap(text) == SplitHeadings(text, 1, 1)[1]

RECURSIVE Sections(_, _)
\* the headings of a tagged text, each with what follows it up to the
\* next heading: pieces[i] is a heading and pieces[i + 1] its content
Sections(pieces, i) ==
  IF i + 1 > Len(pieces) THEN <<>>
  ELSE <<[date |-> Strip(pieces[i]), content |-> Strip(pieces[i + 1])]>>
         \o Sections(pieces, i + 2)

\* the headings of text with their own content
OwnSections(text) == Sections(SplitHeadings(text, 1, 1), 2)

\* the cards a tagged text stands for: its headings that have content
ExpectedCards(text) ==
  SelectSeq(OwnSections(text), LAMBDA e : e.content # <<>>)

\* C16: each card is a heading with the content that follows it up to the
\* next heading; a heading without content is dropped on its own and the
\* other headings keep their own content (stated for texts that start with
\* a heading).
C16_OwnContent ==
  (csOut.done /\ ~IsBlank(csIn) /\ Strip(Gap(csIn)) = <<>>)
  => Cards(csOut.value, 1) = ExpectedCards(csIn)

\* C17: content lines before the first heading are in no card, and the
\* first card is the first heading with its own content (stated for texts
\* in which every heading has content).
C17_LeadingContentDiscarded ==
  ( /\ csOut.done
    /\ Strip(Gap(csIn)) # <<>>
    /\ ExpectedCards(csIn) = OwnSections(csIn) )
  => Cards(csOut.value, 1) = ExpectedCards(csIn)

\* the tagged text ends with a heading that nothing follows
EndsWithHeading(text) ==
  LET own == OwnSections(text) IN
  own # <<>> /\ own[Len(own)].content = <<>> /\ own[Len(own)].date # <<>>

RECURSIVE LastIndexOf(_, _)
\* the last position of tag in s, 0 when none
LastIndexOf(s, tag) ==
  IF s = <<>> THEN 0
  ELSE IF s[Len(s)] = tag THEN Len(s)
  ELSE LastIndexOf(SubSeq(s, 1, Len(s) - 1), tag)

\* C18: when the tagged text ends with a heading that nothing follows, no
\* card has that heading's text as its heading or as its content, and the
\* cards are those of the text without that last heading.
C18_TrailingHeadingDropped ==
  (csOut.done /\ EndsWithHeading(csIn))
  => LET own == OwnSections(csIn)
         h == own[Len(own)].date
         cards == Cards(csOut.value, 1)
         before == SubSeq(csIn, 1, LastIndexOf(csIn, "<h3>") - 1)
     IN  /\ \A k \in 1..Len(cards) :
              cards[k].date # h /\ cards[k].content # h
         /\ cards = Cards(create_schedule_html(before).value, 1)

\* C19: for an empty text, a whitespace-only text and a text without any
\* <h3> heading create_schedule_html returns the empty fragment and raises
\* nothing.
C19_NoHeadingEmptyFragment ==
  (csOut.done /\ (IsBlank(csIn) \/ Count(csIn, "<h3>") = 0))
  => csOut.value = <<>> /\ csOut.raised = "none"

C19_Witness ==
  /\ csOut.done
  /\ ~IsBlank(csIn)
  /\ Count(csIn, "<h3>") = 0
  /\ Count(csIn, "<br />") > 1
  /\ csOut.value = <<>>

----------------------------------------------------------------------------
(* Properties of the standalone scripts *)

\* C21: the standalone update_index_html changes the content of index.html
\* only when the fragment is not blank and the file holds the marker
\* exactly twice; otherwise the content is left as it was (stated for
\* calls that meet no I/O error).
C21_StandalonePreconditions ==
  ( /\ last.n > 0
    /\ last.fault = "none"
    /\ last.kind # "raised"
    /\ \/ IsBlank(last.html)
       \/ Count(ReadText(last.preTarget), start_marker) # 2 )
  => target = last.preTarget

----------------------------------------------------------------------------
(* More properties of the patcher *)

\* C25: the failure path restores the target only from a backup that this
\* call wrote completely with the pre-call content; when the backup copy
\* failed the target is not overwritten.
C25_RestoreFromOwnBackup ==
  last.restored
  => /\ last.copied
     /\ \E b \in backups :
          /\ b.name = last.name
          /\ b.born = last.n
          /\ b.content = last.preTarget

\* C26: every backup that pruning deletes was created before every backup
\* that stays, also after calls that wrote nothing.
C26_PruneOldestFirst ==
  \A d \in last.deleted :
    d.name # last.name => \A k \in backups : d.born < k.born

\* C27: a call rejected for its marker count leaves the backup files as
\* they were: none created, none deleted.
C27_MismatchKeepsBackups ==
  (last.n > 0 /\ last.kind = "marker_mismatch")
  => backups = last.preBackups

\* C28: after successful calls only, with fragments that do not hold the
\* marker, a target that started with exactly two markers holds exactly
\* two, so that the marker check of the next call passes.  (Fails for a
\* fragment that re.sub expands to text with a marker in it.)
C28_TwoMarkersKept ==
  (hist.startTwo /\ hist.allOk /\ hist.clean)
  => /\ Count(ReadText(target), start_marker) = 2
     /\ MarkersValid(ReadText(target))

----------------------------------------------------------------------------
(* Properties of the confirm handler *)

\* C29: the text that confirm passes to create_schedule_html is the tagged
\* text made from the most recent upload or edit; not the text of an
\* earlier upload or edit, and not the raw edit message.
C29_ConfirmUsesLatestTagged ==
  (botLast.event = "confirm" /\ botLast.called)
  => /\ botLast.preLatest.some
     /\ botLast.input = botLast.preLatest.text

\* C30: the local update is reported as done only when update_index_html
\* returned True.
C30_LocalSuccessOnlyIfPatched ==
  (botLast.event = "confirm" /\ botLast.local = "updated")
  => botLast.patcher = "true"

----------------------------------------------------------------------------
(* Properties of the line tagger *)

\* C22: the first content line after a heading gets exactly one "<br />",
\* with or without a time at its start, also when two headings precede it;
\* the flag is then cleared, so that a note line after it gets the double
\* break of a line that is not first after a heading.
C22_FirstAfterHeading ==
  (ptOut.done /\ ptIn \in RowTexts)
  => LET rowsIn == SplitLines(ptIn)
         rowsOut == SplitLines(ptOut.value)
     IN  /\ \A k \in 2..Len(rowsIn) :
              (rowsIn[k] # HeadingLine /\ rowsIn[k - 1] = HeadingLine)
              => rowsOut[k] = <<"<br />">> \o rowsIn[k]
         /\ \A k \in 3..Len(rowsIn) :
              ( /\ rowsIn[k] = NoteLine
                /\ rowsIn[k - 1] # HeadingLine
                /\ rowsIn[k - 2] = HeadingLine )
              => rowsOut[k] = <<"<br />", "<br />">> \o rowsIn[k]

C22_Witness ==
  /\ ptOut.done
  /\ ptIn = JoinLines(<<HeadingLine, TimeLine, NoteLine>>)
  /\ SplitLines(ptOut.value)[2] = <<"<br />">> \o TimeLine
  /\ SplitLines(ptOut.value)[3] = <<"<br />", "<br />">> \o NoteLine

\* line k starts with a time and follows a line that starts with a time,
\* neither being the first line after a heading
TimeAfterTime(rowsIn, k) ==
  /\ rowsIn[k] = TimeLine
  /\ rowsIn[k - 1] = TimeLine
  /\ (k = 2 \/ rowsIn[k - 2] # HeadingLine)

\* C23 as stated: a time line right after another time line, neither first
\* after a heading, is emitted with a single "<br />".
C23_TimeAfterTimeSingle ==
  (ptOut.done /\ ptIn \in RowTexts)
  => LET rowsIn == SplitLines(ptIn)
         rowsOut == SplitLines(ptOut.value)
     IN  \A k \in 2..Len(rowsIn) :
           TimeAfterTime(rowsIn, k) => rowsOut[k] = <<"<br />">> \o rowsIn[k]

\* C23 amended: such a line is emitted with the double "<br /><br />", as
\* every content line that is not the first after a heading.
C23_TimeAfterTimeDouble ==
  (ptOut.done /\ ptIn \in RowTexts)
  => LET rowsIn == SplitLines(ptIn)
         rowsOut == SplitLines(ptOut.value)
     IN  \A k \in 2..Len(rowsIn) :
           TimeAfterTime(rowsIn, k)
           => rowsOut[k] = <<"<br />", "<br />">> \o rowsIn[k]

C23_Witness ==
  /\ ptOut.done
  /\ ptIn = JoinLines(<<TimeLine, TimeLine>>)
  /\ ptOut.value =
       <<"<br />", "<br />">> \o TimeLine \o <<"\n", "<br />", "<br />">>
         \o TimeLine \o <<"\n">>

RECURSIVE JoinWords(_)
\* the words with " " between them and ", " before the last one
JoinWords(words) ==
  IF Len(words) <= 1 THEN Concat(words)
  ELSE IF Len(words) = 2 THEN words[1] \o <<",", " ">> \o words[2]
  ELSE words[1] \o <<" ">> \o JoinWords(Tail(words))

\* the words of a line, each as a text of one element
WordsOf(line) ==
  LET kept == SelectSeq(line, LAMBDA t : t \notin {" ", "(", ")"})
  IN  [i \in 1..Len(kept) |-> <<kept[i]>>]

\* C24: a date line "month (weekday)" is rewritten to "month, weekday"
\* before the lines are classified and is tagged as a heading; a line with
\* a month and a weekday and neither comma nor parentheses is content.
C24_ParenDateIsHeading ==
  /\ (ptOut.done /\ ptIn \in ParenTexts)
     => SplitLines(ptOut.value)[1]
          = <<"<h3>">> \o JoinWords(WordsOf(SplitLines(ptIn)[1]))
              \o <<"</h3>">>
  /\ (ptOut.done /\ ptIn \in PlainDateTexts)
     => SplitLines(ptOut.value)[1]
          = <<"<br />", "<br />">> \o SplitLines(ptIn)[1]

C24_Witness ==
  /\ ptOut.done
  /\ ptIn = <<"Aprelya", " ", "(", "Ponedelnik", ")">>
  /\ ptOut.value = <<"<h3>", "Aprelya", ",", " ", "Ponedelnik", "</h3>", "\n">>

====
